---------------------------- MODULE Spec2Model ----------------------------
(***************************************************************************)
(* CustomEventSystem: the event bus (EventDispatcher), the stage base      *)
(* class (IProcessor) with its four concrete stages (VideoProcessor,       *)
(* Defogger, InferenceEngine, GUIRenderer) and the wiring done by main.    *)
(*                                                                         *)
(* Every thread of the program has a position pc[t].  A step is one        *)
(* statement, or one critical section, of the C++ source; a condition      *)
(* variable wait is split into the predicate check (mutex held), the       *)
(* atomic release-and-suspend, and the re-acquisition after a wake-up.     *)
(*                                                                         *)
(* Three programs are run on this state:                                   *)
(*   BusSpec    a bus driven by client threads (postEvent,                 *)
(*              shutdownEventloop) with main registering handlers and      *)
(*              running startEventloop;                                    *)
(*   StageSpec  one stage driven by start()/stop() calls of main and       *)
(*              handleEvent calls of client threads;                       *)
(*   PipeSpec   main() as written: three registrations, four start(),      *)
(*              startEventloop(), four stop().                             *)
(* FairBusSpec and FairRunSpec are the bus under fair scheduling, with     *)
(* and without calls of shutdownEventloop.                                 *)
(***************************************************************************)
EXTENDS Integers, Sequences, FiniteSets, TLC

(* ------------------------------ bounds --------------------------------- *)
MaxPosts == 3

MaxRegs == 2

MaxHandles == 2

MaxCalls == 3

MaxFrames == 2

VideoLen == 2

(* Frames the source posts in the fair flow specification. *)
FlowFrames == 1

(* --------------------------- Event::Type ------------------------------- *)
InitialState == "InitialState"

FrameCaptureReady == "FrameCaptureReady"

FrameDefoggerReady == "FrameDefoggerReady"

FrameDetectionReady == "FrameDetectionReady"

Types == {InitialState, FrameCaptureReady, FrameDefoggerReady, FrameDetectionReady}

(* ------------------------------ threads -------------------------------- *)
Stages == {"video", "defog", "infer", "gui"}

Clients == {"c1", "c2"}

Threads == {"main"} \cup Stages \cup Clients

(* A cv::Mat is a header on reference-counted pixel storage: the frame    *)
(* number, the allocation it points to ("read" is the one capture.read    *)
(* filled) and the transforms applied to the pixels.  Copies of a header  *)
(* share the storage.                                                     *)
Mat(n) == [id |-> n, buf |-> "read", ops |-> << >>]

SameStorage(a, b) == a.id = b.id /\ a.buf = b.buf

Event(type, data) == [type |-> type, data |-> data]

NoFrames == << Mat(0), Mat(0) >>

NoEvent == Event("none", NoFrames)

NoHandler == "none"

VARIABLES
    pc,                \* position of every thread
    crashed,           \* std::terminate was called
    busRunning,        \* EventDispatcher::running
    eventQueue,        \* EventDispatcher::eventQueue
    busMutex,          \* holder of EventDispatcher::queueMutex
    handlerContainer,  \* EventDispatcher::handlerContainer
    event,             \* startEventloop: the popped event
    it,                \* startEventloop: what find() returned
    running,           \* IProcessor::running, per stage
    frameQueue,        \* IProcessor::frameQueue, per stage
    queueMutex,        \* holder of IProcessor::queueMutex, per stage
    joinable,          \* IProcessor::workerThread.joinable(), per stage
    frames,            \* processEvents: the popped payload, per stage
    resources,         \* which external resources can be opened
    windowClosed,      \* glfwWindowShouldClose(window)
    videoPos,          \* position of the cv::VideoCapture
    cmdArgs,           \* main: the command line as CommandLineArgs sees it
    usagePrinted,      \* main: printUsage was called
    exitStatus,        \* main: << >> while running, << n >> after return n
    fnArgs,            \* the arguments of a transform applied on its own
    fnResult,          \* << >> before the call, << value >> after it
    mStage,            \* main: the stage of the current start()/stop()
    mIdx,              \* main: index of the current statement / call count
    cEvent,            \* client: the event of the handleEvent in progress
    posted,            \* history: events in the order postEvent pushed them
    busPopped,         \* history: events in the order the loop popped them
    registered,        \* history: per type, the handlers registerHandler was given
    handled,           \* history: handleEvent calls in the order they returned
    diagnosed,         \* history: events that got the no-handler diagnostic
    enqueued,          \* history: payloads pushed per stage
    popped,            \* history: payloads popped per stage
    shutdownPhase,     \* history: 0 not called, 1 in progress, 2 returned
    poppedAtShutdown,  \* history: events the loop had popped when the flag was cleared
    postedAtShutdown,  \* history: events posted when the flag was cleared
    stopReturned,      \* history: the last start()/stop() of a stage was a returned stop()
    everStarted        \* history: start() was called on the stage

busVars == << busRunning, eventQueue, busMutex, handlerContainer, event, it >>

stageVars == << running, frameQueue, queueMutex, joinable, frames >>

envVars == << resources, windowClosed, videoPos >>

cliVars == << cmdArgs, usagePrinted, exitStatus >>

numVars == << fnArgs, fnResult >>

drvVars == << mStage, mIdx, cEvent >>

histVars == << posted, busPopped, registered, handled, diagnosed, enqueued, popped,
               shutdownPhase, poppedAtShutdown, postedAtShutdown, stopReturned, everStarted >>

vars == << pc, crashed, busVars, stageVars, envVars, cliVars, numVars, drvVars,
          histVars >>


(* ------------------------------ helpers -------------------------------- *)
(* IProcessor::getAccessibleType of the four concrete stages. *)
AccessibleType(s) ==
    CASE s = "video" -> InitialState
      [] s = "defog" -> FrameCaptureReady
      [] s = "infer" -> FrameDefoggerReady
      [] s = "gui"   -> FrameDetectionReady

(* The external resource a stage's worker opens first, if any. *)
ResourceOf(s) ==
    CASE s = "video" -> "video"
      [] s = "defog" -> "none"
      [] s = "infer" -> "model"
      [] s = "gui"   -> "glfw"

Resources == {"video", "model", "glfw", "none"}

(* Faulty NotifyBus: postEvent without its notify_one. *)
NotifyBusLost(p) == p

(* std::condition_variable::notify_one/notify_all on the bus condition:    *)
(* only the thread inside startEventloop ever waits on it.  A woken thread *)
(* is where a thread about to lock is: it takes the mutex and evaluates    *)
(* the predicate of wait().                                                *)
NotifyBus(p) == [p EXCEPT !["main"] = IF @ = "blocked" THEN "lock" ELSE @]

(* notify_one/notify_all on a stage's condition: only its worker waits.    *)
NotifyStage(p, s) == [p EXCEPT ![s] = IF @ = "blocked" THEN "lock" ELSE @]

(* std::terminate: every thread of the process is gone. *)
Aborted == [t \in Threads |-> "aborted"]

(* Faulty QueuePush: the new element goes to the front. *)
QueuePushFront(q, x) == << x >> \o q

(* Faulty QueueFront: back() instead of front(). *)
QueueBack(q) == q[Len(q)]

(* std::queue: push at the back, front()/pop() at the front. *)
QueuePush(q, x) == Append(q, x)

QueueFront(q) == Head(q)

QueuePop(q) == Tail(q)

(* ------------------------------- Init ---------------------------------- *)
InitState(mainStart, st, res) ==
    /\ pc = [t \in Threads |->
                IF t = "main" THEN mainStart
                ELSE IF t \in Clients THEN "ready" ELSE "idle"]
    /\ crashed = FALSE
    /\ busRunning = TRUE
    /\ eventQueue = << >>
    /\ busMutex = "free"
    /\ handlerContainer = [ty \in Types |-> NoHandler]
    /\ event = NoEvent
    /\ it = "end"
    /\ running = [s \in Stages |-> FALSE]
    /\ frameQueue = [s \in Stages |-> << >>]
    /\ queueMutex = [s \in Stages |-> "free"]
    /\ joinable = [s \in Stages |-> FALSE]
    /\ frames = [s \in Stages |-> NoFrames]
    /\ resources = res
    /\ windowClosed = FALSE
    /\ videoPos = 0
    /\ mStage = st
    /\ mIdx = 0
    /\ cEvent = [c \in Clients |-> NoEvent]
    /\ posted = << >>
    /\ busPopped = << >>
    /\ registered = [ty \in Types |-> << >>]
    /\ handled = << >>
    /\ diagnosed = << >>
    /\ enqueued = [s \in Stages |-> << >>]
    /\ popped = [s \in Stages |-> << >>]
    /\ shutdownPhase = 0
    /\ poppedAtShutdown = 0
    /\ postedAtShutdown = 0
    /\ stopReturned = [s \in Stages |-> FALSE]
    /\ everStarted = [s \in Stages |-> FALSE]
    /\ usagePrinted = FALSE
    /\ exitStatus = << >>
    /\ fnResult = << >>

AllOpen == [r \in Resources |-> TRUE]

(* --------------------------- command line ------------------------------ *)
(* A path argument is the empty string (the key is absent), a string the  *)
(* URL pattern matches, the name of an existing file or directory, or any *)
(* other string.                                                          *)
PathKinds == {"absent", "url", "file", "nofile"}

(* The --threshold value is absent, text std::stod converts, text it      *)
(* rejects (std::invalid_argument), or a number outside the range of a    *)
(* double (std::out_of_range).                                            *)
ThresholdKinds == {"absent", "number", "text", "range"}

Args == [modelPath : PathKinds, videoPath : PathKinds, threshold : ThresholdKinds]

NoArgs == [fn |-> "none"]

GoodArgs == [modelPath |-> "file", videoPath |-> "file", threshold |-> "absent"]

isValidUrl(path) == path = "url"

fileExists(path) == path = "file"

validatePath(path) == IF isValidUrl(path) THEN TRUE ELSE fileExists(path)

validateArguments(a) == validatePath(a.modelPath) /\ validatePath(a.videoPath)

(* parseArguments catches std::invalid_argument only.                     *)
parseThrows(a) == a.threshold = "range"


(* ------------------------ EventDispatcher ------------------------------ *)
(* Faulty PostEventPush: a queue of capacity one that holds the producer   *)
(* back while it is full.                                                  *)
PostEventPushBounded(e) ==
    /\ busMutex = "free"
    /\ Len(eventQueue) < 1
    /\ eventQueue' = QueuePush(eventQueue, e)
    /\ posted' = Append(posted, e)

(* postEvent, lines 13-16: the critical section that pushes the event. *)
PostEventPush(e) ==
    /\ busMutex = "free"
    /\ eventQueue' = QueuePush(eventQueue, e)
    /\ posted' = Append(posted, e)

(* Faulty RegisterHandler: std::map::insert, which keeps an existing entry. *)
RegisterHandlerKeep(ty, h) ==
    /\ handlerContainer' = [handlerContainer EXCEPT
                               ![ty] = IF @ = NoHandler THEN h ELSE @]
    /\ registered' = [registered EXCEPT ![ty] = Append(@, h)]

(* registerHandler, line 22: handlerContainer[type] = handler.  The map    *)
(* holds one entry per key; operator[] finds or creates it and the         *)
(* assignment replaces the function it held.                               *)
RegisterHandler(ty, h) ==
    /\ handlerContainer' = [handlerContainer EXCEPT ![ty] = h]
    /\ registered' = [registered EXCEPT ![ty] = Append(@, h)]

(* Faulty ShutdownClear: the handler table is left as it is. *)
ShutdownClearKeep(t) ==
    /\ pc[t] = IF t \in Clients THEN "ready" ELSE "shut_clear"
    /\ t \in Clients => shutdownPhase = 0
    /\ handlerContainer' = handlerContainer
    /\ shutdownPhase' = 1
    /\ pc' = [pc EXCEPT ![t] = "shut_store"]
    /\ UNCHANGED << crashed, busRunning, eventQueue, busMutex, event, it,
                    stageVars, envVars, cliVars, numVars, drvVars, posted, busPopped, registered, handled,
                    diagnosed, enqueued, popped, poppedAtShutdown, postedAtShutdown, stopReturned,
                    everStarted >>

(* shutdownEventloop, line 49: handlerContainer.clear().  A client thread  *)
(* calls it at most once; the render worker calls it when its loop ends.   *)
ShutdownClear(t) ==
    /\ pc[t] = IF t \in Clients THEN "ready" ELSE "shut_clear"
    /\ t \in Clients => shutdownPhase = 0
    /\ handlerContainer' = [ty \in Types |-> NoHandler]
    /\ shutdownPhase' = 1
    /\ pc' = [pc EXCEPT ![t] = "shut_store"]
    /\ UNCHANGED << crashed, busRunning, eventQueue, busMutex, event, it,
                    stageVars, envVars, cliVars, numVars, drvVars, posted, busPopped, registered, handled,
                    diagnosed, enqueued, popped, poppedAtShutdown, postedAtShutdown, stopReturned,
                    everStarted >>

(* Faulty ShutdownStore: the flag is left as it is. *)
ShutdownStoreSkip(t) ==
    /\ pc[t] = "shut_store"
    /\ shutdownPhase' = 2
    /\ poppedAtShutdown' = Len(busPopped)
    /\ postedAtShutdown' = Len(posted)
    /\ pc' = [pc EXCEPT ![t] = IF t \in Clients THEN "ready" ELSE "done"]
    /\ UNCHANGED << crashed, busVars, stageVars, envVars, cliVars, numVars, drvVars, posted,
                    busPopped, registered, handled, diagnosed, enqueued,
                    popped, stopReturned, everStarted >>

(* Faulty ShutdownStore: the stages' flags are cleared with the bus flag. *)
ShutdownStoreAll(t) ==
    /\ pc[t] = "shut_store"
    /\ busRunning' = FALSE
    /\ running' = [s \in Stages |-> FALSE]
    /\ shutdownPhase' = 2
    /\ poppedAtShutdown' = Len(busPopped)
    /\ postedAtShutdown' = Len(posted)
    /\ pc' = [pc EXCEPT ![t] = IF t \in Clients THEN "ready" ELSE "done"]
    /\ UNCHANGED << crashed, eventQueue, busMutex, handlerContainer, event, it,
                    frameQueue, queueMutex, joinable, frames,
                    envVars, cliVars, numVars, drvVars, posted, busPopped, registered, handled,
                    diagnosed, enqueued, popped, stopReturned, everStarted >>

(* shutdownEventloop, line 50: running.store(false); no notify follows. *)
ShutdownStore(t) ==
    /\ pc[t] = "shut_store"
    /\ busRunning' = FALSE
    /\ shutdownPhase' = 2
    /\ poppedAtShutdown' = Len(busPopped)
    /\ postedAtShutdown' = Len(posted)
    /\ pc' = [pc EXCEPT ![t] = IF t \in Clients THEN "ready" ELSE "done"]
    /\ UNCHANGED << crashed, eventQueue, busMutex, handlerContainer, event, it,
                    stageVars, envVars, cliVars, numVars, drvVars, posted, busPopped, registered, handled,
                    diagnosed, enqueued, popped, stopReturned, everStarted >>

(* startEventloop, line 26: while (running.load()). *)
LoopTest ==
    /\ pc["main"] = "loop"
    /\ pc' = [pc EXCEPT !["main"] = IF busRunning THEN "lock" ELSE "returned"]
    /\ UNCHANGED << crashed, busVars, stageVars, envVars, cliVars, numVars, drvVars, histVars >>

(* line 28: the predicate of wait(). *)
LoopPredicate == eventQueue # << >> \/ ~busRunning

(* lines 27-28: std::unique_lock lock(queueMutex), or the re-acquisition   *)
(* inside wait() after a wake-up, and the predicate evaluated with the     *)
(* mutex held.                                                             *)
LoopWait ==
    /\ pc["main"] = "lock"
    /\ busMutex = "free"
    /\ busMutex' = "main"
    /\ pc' = [pc EXCEPT !["main"] = IF LoopPredicate THEN "chk" ELSE "sleep"]
    /\ UNCHANGED << crashed, busRunning, eventQueue, handlerContainer, event, it,
                    stageVars, envVars, cliVars, numVars, drvVars, histVars >>

(* line 28: wait() releases the mutex and suspends, atomically. *)
LoopSuspend ==
    /\ pc["main"] = "sleep"
    /\ busMutex' = "free"
    /\ pc' = [pc EXCEPT !["main"] = "blocked"]
    /\ UNCHANGED << crashed, busRunning, eventQueue, handlerContainer, event, it,
                    stageVars, envVars, cliVars, numVars, drvVars, histVars >>

(* A condition variable may wake without a notify. *)
LoopSpuriousWake ==
    /\ pc["main"] = "blocked"
    /\ pc' = [pc EXCEPT !["main"] = "lock"]
    /\ UNCHANGED << crashed, busVars, stageVars, envVars, cliVars, numVars, drvVars, histVars >>

(* line 30: if (!running) break; the lock is released on the way out. *)
LoopBreakTest ==
    /\ pc["main"] = "chk"
    /\ IF ~busRunning
         THEN /\ busMutex' = "free"
              /\ pc' = [pc EXCEPT !["main"] = "returned"]
         ELSE /\ busMutex' = busMutex
              /\ pc' = [pc EXCEPT !["main"] = "drain"]
    /\ UNCHANGED << crashed, busRunning, eventQueue, handlerContainer, event, it,
                    stageVars, envVars, cliVars, numVars, drvVars, histVars >>

(* Faulty LoopDrain: the handler is entered with the bus mutex held. *)
LoopDrainLocked ==
    /\ pc["main"] = "drain"
    /\ IF eventQueue = << >>
         THEN /\ pc' = [pc EXCEPT !["main"] = "loop"]
              /\ busMutex' = "free"
              /\ UNCHANGED << eventQueue, event, busPopped >>
         ELSE /\ event' = QueueFront(eventQueue)
              /\ eventQueue' = QueuePop(eventQueue)
              /\ busPopped' = Append(busPopped, QueueFront(eventQueue))
              /\ busMutex' = busMutex
              /\ pc' = [pc EXCEPT !["main"] = "find"]
    /\ UNCHANGED << crashed, busRunning, handlerContainer, it,
                    stageVars, envVars, cliVars, numVars, drvVars, posted, registered, handled,
                    diagnosed, enqueued, popped, shutdownPhase, poppedAtShutdown, postedAtShutdown,
                    stopReturned, everStarted >>

(* lines 32-35: while (!eventQueue.empty()) { front(); pop(); unlock(); *)
(* with the queue empty the lock goes out of scope and the outer loop      *)
(* tests running again.                                                    *)
LoopDrain ==
    /\ pc["main"] = "drain"
    /\ busMutex' = "free"
    /\ IF eventQueue = << >>
         THEN /\ pc' = [pc EXCEPT !["main"] = "loop"]
              /\ UNCHANGED << eventQueue, event, busPopped >>
         ELSE /\ event' = QueueFront(eventQueue)
              /\ eventQueue' = QueuePop(eventQueue)
              /\ busPopped' = Append(busPopped, QueueFront(eventQueue))
              /\ pc' = [pc EXCEPT !["main"] = "find"]
    /\ UNCHANGED << crashed, busRunning, handlerContainer, it,
                    stageVars, envVars, cliVars, numVars, drvVars, posted, registered, handled, diagnosed,
                    enqueued, popped, shutdownPhase, poppedAtShutdown, postedAtShutdown, stopReturned, everStarted >>

(* line 36: auto it = handlerContainer.find(event.type). *)
LoopFind ==
    /\ pc["main"] = "find"
    /\ it' = IF handlerContainer[event.type] = NoHandler
               THEN "end" ELSE handlerContainer[event.type]
    /\ pc' = [pc EXCEPT !["main"] = "call"]
    /\ UNCHANGED << crashed, busRunning, eventQueue, busMutex, handlerContainer,
                    event, stageVars, envVars, cliVars, numVars, drvVars, histVars >>

(* line 42: lock.lock(). *)
LoopRelock ==
    /\ pc["main"] = "relock"
    /\ busMutex = "free"
    /\ busMutex' = "main"
    /\ pc' = [pc EXCEPT !["main"] = "drain"]
    /\ UNCHANGED << crashed, busRunning, eventQueue, handlerContainer, event, it,
                    stageVars, envVars, cliVars, numVars, drvVars, histVars >>

(* ---------------------- IProcessor::handleEvent ------------------------ *)
(* Faulty HandleEventAccepts: the type is not compared with the         *)
(* stage's accessible type.                                                *)
HandleEventAcceptsAll(s, e) == e.type # InitialState

(* Faulty HandleEventAccepts: no early return on InitialState. *)
HandleEventAcceptsOwn(s, e) == e.type = AccessibleType(s)

(* lines 128-132: an InitialState event returns at once; otherwise the     *)
(* event is taken when its type is the stage's accessible type.            *)
HandleEventAccepts(s, e) ==
    IF e.type = InitialState THEN FALSE
    ELSE e.type = AccessibleType(s)

(* Faulty HandleEventPush: the payload goes to the render stage's queue,   *)
(* whichever stage the handler belongs to.                                 *)
HandleEventPushGui(s, e) ==
    /\ queueMutex[s] = "free"
    /\ frameQueue' = [frameQueue EXCEPT !["gui"] = QueuePush(@, e.data)]
    /\ enqueued' = [enqueued EXCEPT !["gui"] = Append(@, e.data)]
    /\ handled' = Append(handled, [stage |-> s, event |-> e])

(* Faulty HandleEventPush: the payload is appended and the condition      *)
(* signalled without the stage's queue mutex.                              *)
HandleEventPushUnlocked(s, e) ==
    /\ frameQueue' = [frameQueue EXCEPT ![s] = QueuePush(@, e.data)]
    /\ enqueued' = [enqueued EXCEPT ![s] = Append(@, e.data)]
    /\ handled' = Append(handled, [stage |-> s, event |-> e])

(* lines 133-136: lock_guard, frameQueue.push(event.data), notify_one.     *)
(* The caller's pc' applies NotifyStage.                                   *)
HandleEventPush(s, e) ==
    /\ queueMutex[s] = "free"
    /\ frameQueue' = [frameQueue EXCEPT ![s] = QueuePush(@, e.data)]
    /\ enqueued' = [enqueued EXCEPT ![s] = Append(@, e.data)]
    /\ handled' = Append(handled, [stage |-> s, event |-> e])

(* handleEvent returning without touching the queue. *)
HandleEventIgnore(s, e) ==
    /\ handled' = Append(handled, [stage |-> s, event |-> e])
    /\ UNCHANGED << frameQueue, enqueued >>

(* Faulty LoopDiagnose: the loop is left after the diagnostic. *)
LoopDiagnoseReturn ==
    /\ pc["main"] = "call"
    /\ it = "end"
    /\ diagnosed' = Append(diagnosed, event)
    /\ pc' = [pc EXCEPT !["main"] = "returned"]
    /\ UNCHANGED << crashed, busVars, stageVars, envVars, cliVars, numVars, drvVars, posted,
                    busPopped, registered, handled, enqueued, popped, shutdownPhase, poppedAtShutdown, postedAtShutdown,
                    stopReturned, everStarted >>

(* startEventloop, lines 37-41: the no-handler diagnostic. *)
LoopDiagnose ==
    /\ pc["main"] = "call"
    /\ it = "end"
    /\ diagnosed' = Append(diagnosed, event)
    /\ pc' = [pc EXCEPT !["main"] = "relock"]
    /\ UNCHANGED << crashed, busVars, stageVars, envVars, cliVars, numVars, drvVars, posted,
                    busPopped, registered, handled, enqueued, popped, shutdownPhase, poppedAtShutdown, postedAtShutdown,
                    stopReturned, everStarted >>

(* line 38: it->second(event) enters the handler, a bound handleEvent.     *)
(* The iterator names the map node: the function called is the one the     *)
(* node holds now.                                                         *)
LoopCall ==
    /\ pc["main"] = "call"
    /\ it # "end"
    /\ handlerContainer[event.type] # NoHandler
    /\ LET h == handlerContainer[event.type] IN
         /\ it' = h
         /\ IF HandleEventAccepts(h, event)
              THEN /\ pc' = [pc EXCEPT !["main"] = "push"]
                   /\ UNCHANGED << handled, frameQueue, enqueued >>
              ELSE /\ pc' = [pc EXCEPT !["main"] = "relock"]
                   /\ HandleEventIgnore(h, event)
    /\ UNCHANGED << crashed, busRunning, eventQueue, busMutex, handlerContainer,
                    event, running, queueMutex, joinable, frames, envVars, cliVars, numVars,
                    drvVars, posted, busPopped, registered, diagnosed, popped,
                    shutdownPhase, poppedAtShutdown, postedAtShutdown, stopReturned, everStarted >>

(* line 38 after clear() erased the node the iterator names: the call goes *)
(* through a dangling iterator.  The build either still finds the old      *)
(* function object and runs it, or the process dies.                       *)
LoopCallDangling ==
    /\ pc["main"] = "call"
    /\ it # "end"
    /\ handlerContainer[event.type] = NoHandler
    /\ \/ /\ IF HandleEventAccepts(it, event)
               THEN /\ pc' = [pc EXCEPT !["main"] = "push"]
                    /\ UNCHANGED << handled, frameQueue, enqueued >>
               ELSE /\ pc' = [pc EXCEPT !["main"] = "relock"]
                    /\ HandleEventIgnore(it, event)
          /\ UNCHANGED crashed
       \/ /\ pc' = Aborted
          /\ crashed' = TRUE
          /\ UNCHANGED << handled, frameQueue, enqueued >>
    /\ UNCHANGED << busVars, running, queueMutex, joinable, frames, envVars, cliVars, numVars,
                    drvVars, posted, busPopped, registered, diagnosed, popped,
                    shutdownPhase, poppedAtShutdown, postedAtShutdown, stopReturned, everStarted >>

(* handleEvent's critical section, run on the dispatch thread. *)
LoopPush ==
    /\ pc["main"] = "push"
    /\ HandleEventPush(it, event)
    /\ pc' = [NotifyStage(pc, it) EXCEPT !["main"] = "relock"]
    /\ UNCHANGED << crashed, busVars, running, queueMutex, joinable, frames,
                    envVars, cliVars, numVars, drvVars, posted, busPopped, registered, diagnosed, popped,
                    shutdownPhase, poppedAtShutdown, postedAtShutdown, stopReturned, everStarted >>

EventLoop ==
    \/ LoopTest
    \/ LoopWait
    \/ LoopSuspend
    \/ LoopBreakTest
    \/ LoopDrain
    \/ LoopFind
    \/ LoopDiagnose
    \/ LoopCall
    \/ LoopCallDangling
    \/ LoopPush
    \/ LoopRelock

(* ----------------------------- clients --------------------------------- *)
(* The types clients post: two that main may register and one it never    *)
(* registers.                                                              *)
PostTypes == {FrameCaptureReady, FrameDefoggerReady, FrameDetectionReady}

(* A thread other than main calling postEvent(Event(ty, ...)). *)
ClientPost(c) ==
    /\ pc[c] = "ready"
    /\ Len(posted) < MaxPosts
    /\ \E ty \in PostTypes :
         PostEventPush(Event(ty, << Mat(Len(posted) + 1), Mat(Len(posted) + 1) >>))
    /\ pc' = [pc EXCEPT ![c] = "notify"]
    /\ UNCHANGED << crashed, busRunning, busMutex, handlerContainer, event, it,
                    stageVars, envVars, cliVars, numVars, drvVars, busPopped, registered, handled, diagnosed,
                    enqueued, popped, shutdownPhase, poppedAtShutdown, postedAtShutdown, stopReturned, everStarted >>

(* postEvent, line 17: queueCondition.notify_one(). *)
PostEventNotify(t, next) ==
    /\ pc[t] = "notify"
    /\ pc' = [NotifyBus(pc) EXCEPT ![t] = next]
    /\ UNCHANGED << crashed, busVars, stageVars, envVars, cliVars, numVars, drvVars, histVars >>

ClientNotify(c) == PostEventNotify(c, "ready")

(* -------------------------- main of BusSpec ---------------------------- *)
(* The registerHandler(type, handler) calls main may make: the two of the  *)
(* pipeline and one that binds another stage's handleEvent to a type.      *)
Registrations == {<< FrameCaptureReady, "defog" >>, << FrameDefoggerReady, "infer" >>,
                  << FrameCaptureReady, "infer" >>}

BusRegister ==
    /\ pc["main"] = "setup"
    /\ mIdx < MaxRegs
    /\ \E r \in Registrations : RegisterHandler(r[1], r[2])
    /\ mIdx' = mIdx + 1
    /\ UNCHANGED << pc, crashed, busRunning, eventQueue, busMutex, event, it,
                    stageVars, envVars, cliVars, numVars, mStage, cEvent, posted, busPopped, handled, diagnosed, enqueued, popped,
                    shutdownPhase, poppedAtShutdown, postedAtShutdown, stopReturned, everStarted >>

BusRun ==
    /\ pc["main"] = "setup"
    /\ pc' = [pc EXCEPT !["main"] = "loop"]
    /\ UNCHANGED << crashed, busVars, stageVars, envVars, cliVars, numVars, drvVars, histVars >>

InitBus == InitState("setup", "defog", AllOpen) /\ cmdArgs = GoodArgs /\ fnArgs = NoArgs

NextBus ==
    \/ BusRegister
    \/ BusRun
    \/ EventLoop
    \/ LoopSpuriousWake
    \/ \E c \in Clients : ClientPost(c)
    \/ \E c \in Clients : ClientNotify(c)
    \/ \E c \in Clients : ShutdownClear(c)
    \/ \E c \in Clients : ShutdownStore(c)

BusSpec == InitBus /\ [][NextBus]_vars

(* ------------------------- IProcessor::start -------------------------- *)
(* lines 113-114: running.store(true); workerThread = getThreadInfo().     *)
(* Assigning to a std::thread that is still joinable calls std::terminate. *)
Start(s, next) ==
    IF joinable[s]
      THEN /\ pc' = Aborted
           /\ crashed' = TRUE
           /\ running' = [running EXCEPT ![s] = TRUE]
           /\ UNCHANGED << joinable, everStarted, stopReturned >>
      ELSE /\ pc' = [pc EXCEPT ![s] = "init", !["main"] = next]
           /\ running' = [running EXCEPT ![s] = TRUE]
           /\ joinable' = [joinable EXCEPT ![s] = TRUE]
           /\ everStarted' = [everStarted EXCEPT ![s] = TRUE]
           /\ stopReturned' = [stopReturned EXCEPT ![s] = FALSE]
           /\ UNCHANGED crashed

(* -------------------------- IProcessor::stop --------------------------- *)
(* line 119: running.store(false), without the queue mutex. *)
StopStore ==
    /\ pc["main"] = "stop_store"
    /\ running' = [running EXCEPT ![mStage] = FALSE]
    /\ pc' = [pc EXCEPT !["main"] = "stop_notify"]
    /\ UNCHANGED << crashed, busVars, frameQueue, queueMutex, joinable, frames,
                    envVars, cliVars, numVars, drvVars, histVars >>

(* line 120: queueCondition.notify_all(). *)
StopNotify ==
    /\ pc["main"] = "stop_notify"
    /\ pc' = [NotifyStage(pc, mStage) EXCEPT !["main"] = "stop_join"]
    /\ UNCHANGED << crashed, busVars, stageVars, envVars, cliVars, numVars, drvVars, histVars >>

(* Faulty JoinReturns: the worker is detached, nothing is waited for. *)
JoinReturnsDetached(s) == TRUE

(* Faulty JoinReturns: join() without the joinable() test. *)
JoinReturnsUnchecked(s) == pc[s] = "done"

(* lines 121-123: if (workerThread.joinable()) workerThread.join().        *)
(* join() returns once the worker function has returned.                   *)
JoinReturns(s) == joinable[s] => pc[s] = "done"

(* Faulty StopJoin: the thread handle stays joinable after join(). *)
StopJoinKeepHandle(next, nextStage) ==
    /\ pc["main"] = "stop_join"
    /\ JoinReturns(mStage)
    /\ joinable' = joinable
    /\ stopReturned' = [stopReturned EXCEPT ![mStage] = TRUE]
    /\ pc' = [pc EXCEPT !["main"] = next]
    /\ mStage' = nextStage
    /\ UNCHANGED << crashed, busVars, running, frameQueue, queueMutex, frames,
                    envVars, cliVars, numVars, cEvent, posted, busPopped, registered, handled,
                    diagnosed, enqueued, popped, shutdownPhase, poppedAtShutdown, postedAtShutdown, everStarted >>

StopJoin(next, nextStage) ==
    /\ pc["main"] = "stop_join"
    /\ JoinReturns(mStage)
    /\ joinable' = [joinable EXCEPT ![mStage] = FALSE]
    /\ stopReturned' = [stopReturned EXCEPT ![mStage] = TRUE]
    /\ pc' = [pc EXCEPT !["main"] = next]
    /\ mStage' = nextStage
    /\ UNCHANGED << crashed, busVars, running, frameQueue, queueMutex, frames,
                    envVars, cliVars, numVars, cEvent, posted, busPopped, registered, handled,
                    diagnosed, enqueued, popped, shutdownPhase, poppedAtShutdown, postedAtShutdown, everStarted >>

(* ----------------------- processEvents (workers) ----------------------- *)
QueueStages == {"defog", "infer", "gui"}

(* Faulty WorkerInit: the loop is entered whether or not the resource was  *)
(* opened.                                                                 *)
WorkerInitEnter(s) ==
    /\ pc[s] = "init"
    /\ pc' = [pc EXCEPT ![s] = "top"]
    /\ UNCHANGED << crashed, busVars, stageVars, envVars, cliVars, numVars, drvVars, histVars >>

(* What the worker does before its loop.  VideoProcessor: the capture is   *)
(* opened, on failure the function returns.  GUIRenderer: glfwInit and     *)
(* glfwCreateWindow, on failure the function returns.  InferenceEngine:    *)
(* readNetFromDarknet throws on a file it cannot read and nothing catches  *)
(* it in the thread.  Defogger: nothing.                                   *)
WorkerInit(s) ==
    /\ pc[s] = "init"
    /\ IF resources[ResourceOf(s)]
         THEN pc' = [pc EXCEPT ![s] = "top"] /\ UNCHANGED crashed
         ELSE IF s = "infer"
           THEN pc' = Aborted /\ crashed' = TRUE
           ELSE pc' = [pc EXCEPT ![s] = "done"] /\ UNCHANGED crashed
    /\ UNCHANGED << busVars, stageVars, envVars, cliVars, numVars, drvVars, histVars >>

(* Where a queue-driven worker goes when it leaves its loop: the render    *)
(* worker goes on to dispatcher.shutdownEventloop(), the others return.    *)
AfterLoop(s) == IF s = "gui" THEN "shut_clear" ELSE "done"

(* The loop condition: while (running.load()), and for the render worker   *)
(* while (running.load() && !glfwWindowShouldClose(window)).               *)
LoopCondition(s) == running[s] /\ (s = "gui" => ~windowClosed)

(* The render worker then calls glfwPollEvents(): if the user has closed   *)
(* the window, glfwWindowShouldClose is true from here on.                 *)
WorkerTop(s) ==
    /\ s \in QueueStages
    /\ pc[s] = "top"
    /\ pc' = [pc EXCEPT ![s] = IF LoopCondition(s) THEN "lock" ELSE AfterLoop(s)]
    /\ IF s = "gui" /\ LoopCondition(s)
         THEN windowClosed' \in BOOLEAN
         ELSE windowClosed' = windowClosed
    /\ UNCHANGED << crashed, busVars, stageVars, resources, videoPos, cliVars, numVars,
                    drvVars,
                    histVars >>

(* The predicate of queueCondition.wait: !frameQueue.empty() || !running. *)
WorkerPredicate(s) == frameQueue[s] # << >> \/ ~running[s]

(* std::unique_lock lock(queueMutex), or the re-acquisition inside wait()  *)
(* after a wake-up, and the predicate evaluated with the mutex held.       *)
WorkerWait(s) ==
    /\ pc[s] = "lock"
    /\ queueMutex[s] = "free"
    /\ queueMutex' = [queueMutex EXCEPT ![s] = s]
    /\ pc' = [pc EXCEPT ![s] = IF WorkerPredicate(s) THEN "chk" ELSE "sleep"]
    /\ UNCHANGED << crashed, busVars, running, frameQueue, joinable, frames,
                    envVars, cliVars, numVars, drvVars, histVars >>

(* wait() releases the mutex and suspends, atomically. *)
WorkerSuspend(s) ==
    /\ pc[s] = "sleep"
    /\ queueMutex' = [queueMutex EXCEPT ![s] = "free"]
    /\ pc' = [pc EXCEPT ![s] = "blocked"]
    /\ UNCHANGED << crashed, busVars, running, frameQueue, joinable, frames,
                    envVars, cliVars, numVars, drvVars, histVars >>

WorkerSpuriousWake(s) ==
    /\ pc[s] = "blocked"
    /\ pc' = [pc EXCEPT ![s] = "lock"]
    /\ UNCHANGED << crashed, busVars, stageVars, envVars, cliVars, numVars, drvVars, histVars >>

(* if (!running.load()) break; otherwise front(), pop(), unlock(). *)
WorkerTake(s) ==
    /\ pc[s] = "chk"
    /\ queueMutex' = [queueMutex EXCEPT ![s] = "free"]
    /\ IF ~running[s]
         THEN /\ pc' = [pc EXCEPT ![s] = AfterLoop(s)]
              /\ UNCHANGED << frames, frameQueue, popped >>
         ELSE /\ frames' = [frames EXCEPT ![s] = QueueFront(frameQueue[s])]
              /\ frameQueue' = [frameQueue EXCEPT ![s] = QueuePop(@)]
              /\ popped' = [popped EXCEPT ![s] = Append(@, QueueFront(frameQueue[s]))]
              /\ pc' = [pc EXCEPT ![s] = "work"]
    /\ UNCHANGED << crashed, busVars, running, joinable, envVars, cliVars, numVars, drvVars,
                    posted, busPopped, registered, handled, diagnosed, enqueued,
                    shutdownPhase, poppedAtShutdown, postedAtShutdown, stopReturned, everStarted >>

(* A transform written into the storage of m. *)
Apply(m, op) == [m EXCEPT !.ops = Append(@, op)]

(* Defogger::defog reads pSource and leaves the result in pOutput, which   *)
(* convertTo allocates.                                                    *)
Defogged(m) == [id |-> m.id, buf |-> "defog", ops |-> Append(m.ops, "defog")]

(* InferenceEngine lines 64, 71: cv::rectangle and cv::putText draw into   *)
(* frames.second; a header on the same storage sees the drawing.           *)
DrawDetections(f) ==
    << IF SameStorage(f[1], f[2]) THEN Apply(f[1], "detect") ELSE f[1],
       Apply(f[2], "detect") >>

(* Faulty OutputEvent: the haze-removal result is written over the frame   *)
(* it was computed from.                                                   *)
OutputEventInPlace(s, f) ==
    IF s = "defog"
      THEN Event(FrameDefoggerReady, << Apply(f[1], "defog"), Apply(f[2], "defog") >>)
      ELSE Event(FrameDetectionReady, DrawDetections(f))

(* Faulty OutputEvent: the stage posts the payload under the type it takes. *)
OutputEventEcho(s, f) == Event(AccessibleType(s), f)

(* Defogger: postEvent(Event(FrameDefoggerReady, (frames.first, defogged))) *)
(* InferenceEngine: boxes are drawn into frames.second, then               *)
(* postEvent(Event(FrameDetectionReady, frames)).                          *)
OutputEvent(s, f) ==
    IF s = "defog"
      THEN Event(FrameDefoggerReady, << f[1], Defogged(f[2]) >>)
      ELSE Event(FrameDetectionReady, DrawDetections(f))

(* Faulty WorkerTransformPost: a stop request seen during the transform    *)
(* abandons the item.                                                      *)
WorkerTransformCancel(s) ==
    /\ s \in {"defog", "infer"}
    /\ pc[s] = "work"
    /\ IF running[s]
         THEN /\ PostEventPush(OutputEvent(s, frames[s]))
              /\ pc' = [pc EXCEPT ![s] = "notify"]
         ELSE /\ pc' = [pc EXCEPT ![s] = "top"]
              /\ UNCHANGED << eventQueue, posted >>
    /\ UNCHANGED << crashed, busRunning, busMutex, handlerContainer, event, it,
                    stageVars, envVars, cliVars, numVars, drvVars, busPopped, registered, handled, diagnosed,
                    enqueued, popped, shutdownPhase, poppedAtShutdown, postedAtShutdown, stopReturned, everStarted >>

(* Defogger lines 22-27, InferenceEngine lines 41-78: the transform, then  *)
(* dispatcher.postEvent of the output event; running is not read.          *)
WorkerTransformPost(s) ==
    /\ s \in {"defog", "infer"}
    /\ pc[s] = "work"
    /\ PostEventPush(OutputEvent(s, frames[s]))
    /\ pc' = [pc EXCEPT ![s] = "notify"]
    /\ UNCHANGED << crashed, busRunning, busMutex, handlerContainer, event, it,
                    stageVars, envVars, cliVars, numVars, drvVars, busPopped, registered, handled, diagnosed,
                    enqueued, popped, shutdownPhase, poppedAtShutdown, postedAtShutdown, stopReturned, everStarted >>

WorkerNotify(s) == s \in {"video", "defog", "infer"} /\ PostEventNotify(s, "top")

(* GUIRenderer: renderFrame twice, swap buffers, next iteration. *)
GuiRender ==
    /\ pc["gui"] = "work"
    /\ pc' = [pc EXCEPT !["gui"] = "top"]
    /\ UNCHANGED << crashed, busVars, stageVars, envVars, cliVars, numVars, drvVars, histVars >>

(* The frames the source has posted so far. *)
FramesPosted == Len(SelectSeq(posted, LAMBDA e : e.type = FrameCaptureReady))

(* VideoProcessor, line 25: while (running.load()).  Once MaxFrames frames *)
(* are posted the source stays in its inter-frame sleep until it is told   *)
(* to stop.                                                                *)
VideoTop ==
    /\ pc["video"] = "top"
    /\ running["video"] => (FramesPosted < MaxFrames \/ videoPos = VideoLen)
    /\ pc' = [pc EXCEPT !["video"] = IF running["video"] THEN "read" ELSE "done"]
    /\ UNCHANGED << crashed, busVars, stageVars, envVars, cliVars, numVars, drvVars, histVars >>

(* lines 26-30: capture.read(frame); at the end of the video the position  *)
(* is set back to 0 and the loop continues.                                *)
VideoRead ==
    /\ pc["video"] = "read"
    /\ IF videoPos = VideoLen
         THEN /\ videoPos' = 0
              /\ pc' = [pc EXCEPT !["video"] = "top"]
              /\ UNCHANGED frames
         ELSE /\ videoPos' = videoPos + 1
              /\ frames' = [frames EXCEPT !["video"] =
                               << Mat(videoPos + 1), Mat(videoPos + 1) >>]
              /\ pc' = [pc EXCEPT !["video"] = "work"]
    /\ UNCHANGED << crashed, busVars, running, frameQueue, queueMutex, joinable,
                    resources, windowClosed, cliVars, numVars, drvVars, histVars >>

(* line 32: postEvent(Event(FrameCaptureReady, make_pair(frame, frame))). *)
VideoPost ==
    /\ pc["video"] = "work"
    /\ PostEventPush(Event(FrameCaptureReady, frames["video"]))
    /\ pc' = [pc EXCEPT !["video"] = "notify"]
    /\ UNCHANGED << crashed, busRunning, busMutex, handlerContainer, event, it,
                    stageVars, envVars, cliVars, numVars, drvVars, busPopped, registered, handled, diagnosed,
                    enqueued, popped, shutdownPhase, poppedAtShutdown, postedAtShutdown, stopReturned, everStarted >>

Worker(s) ==
    \/ WorkerInit(s)
    \/ WorkerTop(s)
    \/ WorkerWait(s)
    \/ WorkerSuspend(s)
    \/ WorkerTake(s)
    \/ WorkerTransformPost(s)
    \/ WorkerNotify(s)

Source ==
    \/ VideoTop
    \/ VideoRead
    \/ VideoPost

Render ==
    \/ GuiRender
    \/ ShutdownClear("gui")
    \/ ShutdownStore("gui")

(* ------------------------- main of StageSpec --------------------------- *)
(* main calls start() and stop() on one stage, in any order. *)
DrvStart ==
    /\ pc["main"] = "drv"
    /\ mIdx < MaxCalls
    /\ Start(mStage, "drv")
    /\ mIdx' = mIdx + 1
    /\ UNCHANGED << busVars, frameQueue, queueMutex, frames, envVars, cliVars, numVars, mStage,
                    cEvent, posted, busPopped, registered, handled, diagnosed, enqueued,
                    popped, shutdownPhase, poppedAtShutdown, postedAtShutdown >>

DrvStop ==
    /\ pc["main"] = "drv"
    /\ mIdx < MaxCalls
    /\ mIdx' = mIdx + 1
    /\ pc' = [pc EXCEPT !["main"] = "stop_store"]
    /\ UNCHANGED << crashed, busVars, stageVars, envVars, cliVars, numVars, mStage, cEvent, histVars >>

DrvStopJoin == StopJoin("drv", mStage) /\ UNCHANGED mIdx

(* The handleEvent calls made so far, returned or not. *)
HandleCalls == Len(handled) + Cardinality({c \in Clients : pc[c] = "he_push"})

(* A client thread calls handleEvent(e) on the stage, lines 128-132. *)
ClientHandle(c) ==
    /\ pc[c] = "ready"
    /\ HandleCalls < MaxHandles
    /\ \E ty \in Types :
         LET e == Event(ty, << Mat(HandleCalls + 1), Mat(HandleCalls + 1) >>) IN
           IF HandleEventAccepts(mStage, e)
             THEN /\ cEvent' = [cEvent EXCEPT ![c] = e]
                  /\ pc' = [pc EXCEPT ![c] = "he_push"]
                  /\ UNCHANGED << handled, frameQueue, enqueued >>
             ELSE /\ HandleEventIgnore(mStage, e)
                  /\ UNCHANGED << cEvent, pc >>
    /\ UNCHANGED << crashed, busVars, running, queueMutex, joinable, frames,
                    envVars, cliVars, numVars, mStage, mIdx, posted, busPopped, registered, diagnosed, popped,
                    shutdownPhase, poppedAtShutdown, postedAtShutdown, stopReturned, everStarted >>

(* lines 133-136 on the client's thread. *)
ClientHandlePush(c) ==
    /\ pc[c] = "he_push"
    /\ HandleEventPush(mStage, cEvent[c])
    /\ pc' = [NotifyStage(pc, mStage) EXCEPT ![c] = "ready"]
    /\ UNCHANGED << crashed, busVars, running, queueMutex, joinable, frames,
                    envVars, cliVars, numVars, drvVars, posted, busPopped, registered, diagnosed, popped,
                    shutdownPhase, poppedAtShutdown, postedAtShutdown, stopReturned, everStarted >>

(* One stage, with the resource its worker opens present or not. *)
InitStage ==
    \E st \in Stages, ok \in BOOLEAN :
        /\ InitState("drv", st, [r \in Resources |-> r = ResourceOf(st) => ok])
        /\ cmdArgs = GoodArgs /\ fnArgs = NoArgs

NextStage ==
    \/ DrvStart
    \/ DrvStop
    \/ StopStore
    \/ StopNotify
    \/ DrvStopJoin
    \/ \E s \in Stages : Worker(s)
    \/ \E s \in Stages : WorkerSpuriousWake(s)
    \/ Source
    \/ Render
    \/ \E c \in Clients : ClientHandle(c)
    \/ \E c \in Clients : ClientHandlePush(c)

StageSpec == InitStage /\ [][NextStage]_vars

(* ------------------------------ main() --------------------------------- *)
(* Faulty PipeRegistrations: the render stage's handler is left out. *)
PipeRegistrationsTwo ==
    << << FrameCaptureReady, "defog" >>,
       << FrameDefoggerReady, "infer" >> >>

(* The three registerHandler calls of main, in order. *)
PipeRegistrations ==
    << << FrameCaptureReady, "defog" >>,
       << FrameDefoggerReady, "infer" >>,
       << FrameDetectionReady, "gui" >> >>

(* The four start() calls and the four stop() calls of main, in order. *)
StartOrder == << "gui", "infer", "defog", "video" >>

StopOrder == << "video", "defog", "infer", "gui" >>

PipeRegister ==
    /\ pc["main"] = "reg"
    /\ RegisterHandler(PipeRegistrations[mIdx + 1][1], PipeRegistrations[mIdx + 1][2])
    /\ IF mIdx + 1 = Len(PipeRegistrations)
         THEN mIdx' = 0 /\ pc' = [pc EXCEPT !["main"] = "start"]
         ELSE mIdx' = mIdx + 1 /\ pc' = pc
    /\ UNCHANGED << crashed, busRunning, eventQueue, busMutex, event, it,
                    stageVars, envVars, cliVars, numVars, mStage, cEvent, posted, busPopped, handled, diagnosed, enqueued, popped,
                    shutdownPhase, poppedAtShutdown, postedAtShutdown, stopReturned, everStarted >>

(* After the fourth start() main calls dispatcher.startEventloop(). *)
PipeStart ==
    /\ pc["main"] = "start"
    /\ Start(StartOrder[mIdx + 1],
             IF mIdx + 1 = Len(StartOrder) THEN "loop" ELSE "start")
    /\ mIdx' = mIdx + 1
    /\ UNCHANGED << busVars, frameQueue, queueMutex, frames, envVars, cliVars, numVars, mStage,
                    cEvent, posted, busPopped, registered, handled, diagnosed, enqueued,
                    popped, shutdownPhase, poppedAtShutdown, postedAtShutdown >>

(* startEventloop() has returned: videoProcessor.stop() is next. *)
PipeStop ==
    /\ pc["main"] = "returned"
    /\ mStage' = StopOrder[1]
    /\ mIdx' = 1
    /\ pc' = [pc EXCEPT !["main"] = "stop_store"]
    /\ UNCHANGED << crashed, busVars, stageVars, envVars, cliVars, numVars, cEvent, histVars >>

PipeStopJoin ==
    /\ mIdx' = mIdx + 1
    /\ IF mIdx = Len(StopOrder)
         THEN StopJoin("exit", mStage)
         ELSE StopJoin("stop_store", StopOrder[mIdx + 1])

InitPipe ==
    \E res \in [Resources -> BOOLEAN] :
        res["none"] /\ InitState("reg", "video", res) /\ cmdArgs = GoodArgs /\ fnArgs = NoArgs

NextPipe ==
    \/ PipeRegister
    \/ PipeStart
    \/ EventLoop
    \/ LoopSpuriousWake
    \/ PipeStop
    \/ StopStore
    \/ StopNotify
    \/ PipeStopJoin
    \/ \E s \in Stages : Worker(s)
    \/ \E s \in Stages : WorkerSpuriousWake(s)
    \/ Source
    \/ Render

PipeSpec == InitPipe /\ [][NextPipe]_vars

(* ------------------------- main before the loop ------------------------ *)
(* CommandLineArgs cmdArgs(argc, argv): an exception parseArguments does  *)
(* not catch leaves main and ends the process.                            *)
MainParse ==
    /\ pc["main"] = "parse"
    /\ IF parseThrows(cmdArgs)
         THEN pc' = Aborted /\ crashed' = TRUE
         ELSE pc' = [pc EXCEPT !["main"] = "validate"] /\ crashed' = crashed
    /\ UNCHANGED << busVars, stageVars, envVars, cliVars, numVars, drvVars, histVars >>

(* if (!cmdArgs.validateArguments()) { printUsage(argv[0]); return 1; }   *)
MainValidate ==
    /\ pc["main"] = "validate"
    /\ IF validateArguments(cmdArgs)
         THEN /\ pc' = [pc EXCEPT !["main"] = "construct"]
              /\ UNCHANGED << usagePrinted, exitStatus >>
         ELSE /\ usagePrinted' = TRUE
              /\ exitStatus' = << 1 >>
              /\ pc' = [pc EXCEPT !["main"] = "exit"]
    /\ UNCHANGED << crashed, busVars, stageVars, envVars, cmdArgs, numVars, drvVars,
                    histVars >>

(* The dispatcher and the four stages are constructed; the registrations  *)
(* come next.                                                             *)
MainConstruct ==
    /\ pc["main"] = "construct"
    /\ pc' = [pc EXCEPT !["main"] = "reg"]
    /\ UNCHANGED << crashed, busVars, stageVars, envVars, cliVars, numVars, drvVars, histVars >>

InitMain ==
    /\ InitState("parse", "video", AllOpen)
    /\ cmdArgs \in Args
    /\ fnArgs = NoArgs

NextMain ==
    \/ MainParse
    \/ MainValidate
    \/ MainConstruct
    \/ PipeRegister
    \/ PipeStart

MainSpec == InitMain /\ [][NextMain]_vars

(* ------------------------ transforms on their own ---------------------- *)
(* A CV_32F value is NaN or a number, held in units of 1/Scale: a pixel   *)
(* channel c of an 8-bit frame, divided by 255 (defogger.cpp:49), is      *)
(* c * 100 units.                                                         *)
Scale == 255 * 100

NaN == [nan |-> TRUE, v |-> 0]

Num(n) == [nan |-> FALSE, v |-> n]

FAdd(a, b) == IF a.nan \/ b.nan THEN NaN ELSE Num(a.v + b.v)

FSub(a, b) == IF a.nan \/ b.nan THEN NaN ELSE Num(a.v - b.v)

FMul(a, b) == IF a.nan \/ b.nan THEN NaN ELSE Num((a.v * b.v) \div Scale)

(* Element-wise a / b; 0 / 0 is NaN. *)
FDiv(a, b) ==
    IF a.nan \/ b.nan \/ b.v = 0 THEN NaN ELSE Num((a.v * Scale) \div b.v)

(* Mat / scalar is evaluated as Mat * (1 / scalar): with a scalar of 0 a   *)
(* channel that is 0 becomes 0 * inf, which is NaN.  On a uniform frame    *)
(* the channel is 0 exactly where its airlight is 0.                       *)
FScale(a, s) ==
    IF a.nan \/ s.nan \/ s.v = 0 THEN NaN ELSE Num((a.v * Scale) \div s.v)

FLess(a, b) == ~a.nan /\ ~b.nan /\ a.v < b.v

(* What cv::min and cv::max return when an operand is NaN depends on the   *)
(* code path the build takes for the element: the scalar loop returns the  *)
(* first operand, the SSE instruction the second, the NEON one NaN.        *)
NaNRules == {"first", "second", "nan"}

OnNaN(a, b, rule) ==
    IF rule = "first" THEN a ELSE IF rule = "second" THEN b ELSE NaN

FMin(a, b, rule) ==
    IF a.nan \/ b.nan THEN OnNaN(a, b, rule)
    ELSE IF b.v < a.v THEN b ELSE a

(* Faulty FMax: the smaller operand is returned. *)
FMaxSmaller(a, b, rule) == FMin(a, b, rule)

FMax(a, b, rule) ==
    IF a.nan \/ b.nan THEN OnNaN(a, b, rule)
    ELSE IF a.v < b.v THEN b ELSE a

(* saturate_cast<uchar> of value * 255: rounded and clipped to 0..255;     *)
(* NaN rounds to INT_MIN and is clipped to 0.                              *)
saturate(a) ==
    IF a.nan THEN 0
    ELSE LET r == (a.v + 50) \div 100
         IN  IF r < 0 THEN 0 ELSE IF r > 255 THEN 255 ELSE r

(* pSource.convertTo(tI, CV_32F); tI /= 255, for one pixel << b, g, r >>.  *)
toFloat(colour) == [i \in 1..3 |-> Num(colour[i] * 100)]

(* The minimum over the three channels; on a uniform frame the erosion     *)
(* leaves every pixel as it is, whatever the window.                       *)
darkChannel(px, pSize, rule) == FMin(FMin(px[1], px[2], rule), px[3], rule)

(* The mean of the source colour over the tNumpx pixels that are brightest *)
(* in the dark channel, tNumpx = max(floor(imgSize / 1000), 1); on a       *)
(* uniform frame every one of them has the frame's colour.                 *)
atmLight(px, imgSize) ==
    LET tNumpx == IF imgSize \div 1000 > 1 THEN imgSize \div 1000 ELSE 1
    IN  [i \in 1..3 |-> Num((tNumpx * px[i].v) \div tNumpx)]

transmissionEstimate(px, tA, pSize, pOmega, rule) ==
    LET tImgA == [i \in 1..3 |-> FScale(px[i], tA[i])]
    IN  FSub(Num(Scale), FMul(Num(pOmega), darkChannel(tImgA, pSize, rule)))

(* The box filters of a uniform map are the map itself. *)
guidedfilter(I, T, pEps) ==
    LET tCovIT == FSub(FMul(I, T), FMul(I, T))
        tVarI  == FSub(FMul(I, I), FMul(I, I))
        a      == FDiv(tCovIT, FAdd(tVarI, Num(pEps)))
        b      == FSub(T, FMul(a, I))
    IN  FAdd(FMul(a, I), b)

(* cvtColor(BGR2GRAY), then / 255; tEps = 0.0001. *)
transmissionRefine(colour, T) ==
    LET tGray == (114 * colour[1] + 587 * colour[2] + 299 * colour[3] + 500) \div 1000
    IN  guidedfilter(Num(tGray * 100), T, Scale \div 10000 + 1)

(* recover, line 145: pTransmissionRefined = max(pTransmissionRefined, pTx) *)
clampTransmission(t, pTx, rule) == FMax(t, Num(pTx), rule)

(* recover, lines 147-151: (channel - A) / t + A. *)
recover(px, t, tA, pTx, rule) ==
    LET d == clampTransmission(t, pTx, rule)
    IN  [i \in 1..3 |-> FAdd(FDiv(FSub(px[i], tA[i]), d), tA[i])]

(* Defogger::defog on a frame whose imgSize pixels all have one colour:    *)
(* the colour of an output pixel.                                          *)
defog(colour, imgSize, pRectSize, pOmega, pNumt, rule) ==
    LET tI == toFloat(colour)
        tA == atmLight(tI, imgSize)
        tTransmissionEstimated == transmissionEstimate(tI, tA, pRectSize, pOmega, rule)
        tTransmissionRefined == transmissionRefine(colour, tTransmissionEstimated)
        tRecovered == recover(tI, tTransmissionRefined, tA, pNumt, rule)
    IN  [i \in 1..3 |-> saturate(tRecovered[i])]

(* InferenceEngine lines 55-56: the class with the largest score (the      *)
(* first of them) and its score.                                           *)
objectClass(scores) ==
    CHOOSE i \in 1..Len(scores) :
        /\ \A j \in 1..Len(scores) : scores[j] <= scores[i]
        /\ \A j \in 1..(i - 1) : scores[j] < scores[i]

(* line 58: if (confidence > confidenceThreshold). *)
keepDetection(confidence, confidenceThreshold) ==
    confidence > confidenceThreshold

(* The boxes drawn for one row of the network's output. *)
detect(scores, confidenceThreshold) ==
    IF keepDetection(scores[objectClass(scores)], confidenceThreshold)
      THEN << objectClass(scores) >>
      ELSE << >>

(* Scores and thresholds in quarters, which a float holds exactly. *)
MaxScore == 4

DetectArgs ==
    [fn : {"detect"}, scores : [1..2 -> 0..MaxScore], threshold : 0..MaxScore]

Channels == {0, 100, 255}

DefogArgs ==
    [fn : {"defog"}, colour : [1..3 -> Channels], imgSize : {1, 2000},
     pRectSize : {1, 15}]

Transmissions ==
    {NaN} \cup {Num(x) : x \in {0 - Scale, 0, Scale \div 20, Scale \div 10,
                                Scale \div 2, Scale, 2 * Scale}}

RecoverArgs ==
    [fn : {"recover"}, tI : {0, 100 * 100}, tA : {0, 100 * 100, 255 * 100},
     t : Transmissions, pTx : {Scale \div 10, Scale \div 2}]

(* Frames for atmLight: a frame is a sequence of runs, each run n pixels   *)
(* that follow one another in the flattened image and have one colour and  *)
(* one dark-channel value.                                                 *)
MaxRuns == 3

RunLengths == {1, 999, 1000}

DarkValues == {0, 100 * 100, 255 * 100}

RunColours == {<< 0, 0, 0 >>, << 255, 100, 0 >>}

Runs == [n : RunLengths, dark : DarkValues, colour : RunColours]

AtmArgs == [fn : {"atmLight"}, runs : UNION {[1..k -> Runs] : k \in 1..MaxRuns}]

(* The pixels of the runs at positions from..to of the order p. *)
RECURSIVE Pixels(_, _, _, _)
Pixels(runs, p, from, to) ==
    IF from > to THEN 0 ELSE runs[p[from]].n + Pixels(runs, p, from + 1, to)

(* int row * col of the frame. *)
imgSizeOf(runs) == Pixels(runs, [k \in 1..Len(runs) |-> k], 1, Len(runs))

(* defogger.cpp line 83: int(cv::max(floor(imgSize / 1000), 1.0)), the     *)
(* quotient being an integer division.                                     *)
tNumpxOf(imgSize) ==
    LET q == imgSize \div 1000 IN IF q > 1 THEN q ELSE 1

(* argsort: std::sort of the indices with the comparison                   *)
(* pArray[tPos1] < pArray[tPos2].  The result is a permutation in which no *)
(* element is smaller than one before it; std::sort is not stable, so the  *)
(* order of equal elements is any.  Pixels of one run are equal and alike, *)
(* so an order of the runs stands for the orders of their pixels.          *)
argsort(runs) ==
    {p \in [1..Len(runs) -> 1..Len(runs)] :
        /\ \A i, j \in 1..Len(runs) : i # j => p[i] # p[j]
        /\ \A i, j \in 1..Len(runs) :
              i < j => ~(runs[p[j]].dark < runs[p[i]].dark)}

(* Faulty tDstIndices: the first tNumpx entries of the sorted indices. *)
tDstIndicesFirst(runs, p, tNumpx) ==
    [k \in 1..Len(runs) |->
        LET rest == tNumpx - Pixels(runs, p, 1, k - 1)
        IN  IF rest <= 0 THEN 0
            ELSE IF rest > runs[p[k]].n THEN runs[p[k]].n ELSE rest]

(* line 85: tDstIndices(tIndices.begin() + (imgSize - tNumpx),             *)
(* tIndices.end()): how many pixels of the run at each position of the     *)
(* sorted order are among the entries copied.                              *)
tDstIndices(runs, p, tNumpx) ==
    [k \in 1..Len(runs) |->
        LET rest == tNumpx - Pixels(runs, p, k + 1, Len(runs))
        IN  IF rest <= 0 THEN 0
            ELSE IF rest > runs[p[k]].n THEN runs[p[k]].n ELSE rest]

(* The sum over the copied entries of channel c of the source pixel. *)
RECURSIVE SumChannel(_, _, _, _, _)
SumChannel(runs, p, taken, c, k) ==
    IF k = 0 THEN 0
    ELSE taken[k] * toFloat(runs[p[k]].colour)[c].v + SumChannel(runs, p, taken, c, k - 1)

(* Defogger::atmLight, lines 75-95, with pOutA zeroed by the caller        *)
(* (line 50): the count, the entries taken and the mean per channel.       *)
atmLightRuns(runs, p) ==
    LET tNumpx == tNumpxOf(imgSizeOf(runs))
        taken  == tDstIndices(runs, p, tNumpx)
    IN  [tNumpx |-> tNumpx,
         tIndices |-> p,
         taken |-> taken,
         sum |-> [c \in 1..3 |-> SumChannel(runs, p, taken, c, Len(runs))],
         pOutA |-> [c \in 1..3 |->
                      Num(SumChannel(runs, p, taken, c, Len(runs)) \div tNumpx)]]

AtmLightCall ==
    /\ fnArgs.fn = "atmLight"
    /\ fnResult = << >>
    /\ \E p \in argsort(fnArgs.runs) :
         fnResult' = << atmLightRuns(fnArgs.runs, p) >>
    /\ UNCHANGED << pc, crashed, busVars, stageVars, envVars, cliVars, fnArgs,
                    drvVars, histVars >>

DetectCall ==
    /\ fnArgs.fn = "detect"
    /\ fnResult = << >>
    /\ fnResult' = << detect(fnArgs.scores, fnArgs.threshold) >>
    /\ UNCHANGED << pc, crashed, busVars, stageVars, envVars, cliVars, fnArgs,
                    drvVars, histVars >>

(* defog with its default omega 0.95 and minimum transmission 0.1. *)
DefogCall ==
    /\ fnArgs.fn = "defog"
    /\ fnResult = << >>
    /\ \E rule \in NaNRules :
         fnResult' = << defog(fnArgs.colour, fnArgs.imgSize, fnArgs.pRectSize,
                              (Scale * 95) \div 100, Scale \div 10, rule) >>
    /\ UNCHANGED << pc, crashed, busVars, stageVars, envVars, cliVars, fnArgs,
                    drvVars, histVars >>

RecoverCall ==
    /\ fnArgs.fn = "recover"
    /\ fnResult = << >>
    /\ \E rule \in NaNRules :
         LET px == [i \in 1..3 |-> Num(fnArgs.tI)]
             tA == [i \in 1..3 |-> Num(fnArgs.tA)]
         IN  fnResult' =
               << [divisor |-> clampTransmission(fnArgs.t, fnArgs.pTx, rule),
                   out |-> recover(px, fnArgs.t, tA, fnArgs.pTx, rule)] >>
    /\ UNCHANGED << pc, crashed, busVars, stageVars, envVars, cliVars, fnArgs,
                    drvVars, histVars >>

InitFn ==
    /\ InitState("fn", "video", AllOpen)
    /\ cmdArgs = GoodArgs
    /\ fnArgs \in DetectArgs \cup DefogArgs \cup RecoverArgs \cup AtmArgs

NextFn ==
    \/ DetectCall
    \/ DefogCall
    \/ RecoverCall
    \/ AtmLightCall

FnSpec == InitFn /\ [][NextFn]_vars

(* The bus without a shutdown request: clients only post. *)
NextRun ==
    \/ BusRegister
    \/ BusRun
    \/ LoopTest
    \/ LoopWait
    \/ LoopSuspend
    \/ LoopBreakTest
    \/ LoopDrain
    \/ LoopFind
    \/ LoopDiagnose
    \/ LoopCall
    \/ LoopPush
    \/ LoopRelock
    \/ LoopSpuriousWake
    \/ \E c \in Clients : ClientPost(c)
    \/ \E c \in Clients : ClientNotify(c)

(* Fair scheduling: a thread that can take its next step eventually takes  *)
(* it.  Nothing obliges a client to make a further call, and nothing       *)
(* obliges a condition variable to wake spuriously.                        *)
BusFairness ==
    /\ WF_vars(BusRun)
    /\ WF_vars(EventLoop)
    /\ \A c \in Clients : WF_vars(ClientNotify(c))
    /\ \A c \in Clients : WF_vars(ShutdownStore(c))

FairBusSpec == BusSpec /\ BusFairness

FairRunSpec == InitBus /\ [][NextRun]_vars /\ BusFairness

(* The program started with every resource present. *)
InitFlow ==
    /\ InitState("reg", "video", AllOpen)
    /\ cmdArgs = GoodArgs /\ fnArgs = NoArgs

(* A worker step while the user leaves the window open:                    *)
(* glfwWindowShouldClose keeps returning false.                            *)
WorkerOpen(s) == Worker(s) /\ windowClosed' = FALSE

(* The steps of main, the stages and the bus while nothing asks for a      *)
(* shutdown: main registers, starts the four stages and runs the dispatch  *)
(* loop; no stop() is reached because startEventloop does not return.      *)
(* The source while it has not yet posted FlowFrames frames; after that   *)
(* it stays in its inter-frame sleep.                                      *)
FlowSource == FramesPosted < FlowFrames /\ Source

NextFlow ==
    \/ PipeRegister
    \/ PipeStart
    \/ LoopTest
    \/ LoopWait
    \/ LoopSuspend
    \/ LoopBreakTest
    \/ LoopDrain
    \/ LoopFind
    \/ LoopCall
    \/ LoopPush
    \/ LoopRelock
    \/ LoopSpuriousWake
    \/ \E s \in Stages : WorkerOpen(s)
    \/ \E s \in Stages : WorkerSpuriousWake(s)
    \/ FlowSource
    \/ GuiRender

FlowLoop ==
    \/ LoopTest
    \/ LoopWait
    \/ LoopSuspend
    \/ LoopBreakTest
    \/ LoopDrain
    \/ LoopFind
    \/ LoopCall
    \/ LoopPush
    \/ LoopRelock

(* Fair scheduling: every thread keeps running, and a thread waiting in    *)
(* std::mutex::lock is not overtaken for ever, so a step that needs a      *)
(* mutex and finds it free again and again is eventually taken.            *)
FlowFairness ==
    /\ WF_vars(PipeRegister \/ PipeStart)
    /\ SF_vars(FlowLoop)
    /\ \A s \in Stages : SF_vars(WorkerOpen(s))
    /\ SF_vars(FlowSource)
    /\ WF_vars(GuiRender)

FlowSpec == InitFlow /\ [][NextFlow]_vars /\ FlowFairness

(* ------------------------------ claims --------------------------------- *)
Registered(e) == handlerContainer[e.type] # NoHandler

Unregistered(e) == handlerContainer[e.type] = NoHandler

(* The dispatch thread is suspended and nothing is left in the bus queue. *)
BusQuiescent == pc["main"] = "blocked" /\ eventQueue = << >>

(* C1: while the bus runs and the handler table is unchanged, the handlers *)
(* invoked by the dispatch loop are, in post order, exactly the registered *)
(* handlers of the posted events of registered types: one invocation per   *)
(* event, never reordered, and all N of them once the loop has drained.    *)
C1_FifoDispatch ==
    shutdownPhase = 0 =>
        LET reg == SelectSeq(posted, Registered) IN
          /\ Len(handled) <= Len(reg)
          /\ \A i \in 1..Len(handled) :
                /\ handled[i].event = reg[i]
                /\ handled[i].stage = handlerContainer[reg[i].type]
          /\ BusQuiescent => Len(handled) = Len(reg)

(* Three events of registered types, posted by both clients, all handled. *)
C1_Witness ==
    /\ shutdownPhase = 0
    /\ BusQuiescent
    /\ Len(handled) = 3
    /\ pc["c1"] = "notify"
    /\ pc["c2"] = "notify"

(* C2: with fair scheduling and no shutdown request, every posted event is *)
(* eventually popped by the dispatch loop.                                 *)
C2_EveryPostPopped ==
    \A k \in 1..MaxPosts : (Len(posted) >= k) ~> (Len(busPopped) >= k)

(* The loop was suspended, a post has woken it, the event is still queued. *)
C2_Witness ==
    /\ pc["main"] = "lock"
    /\ Len(eventQueue) = 1
    /\ Len(busPopped) = 2

(* C3: after shutdownEventloop() has returned, startEventloop() eventually *)
(* returns.                                                                *)
C3_ShutdownEndsLoop ==
    (shutdownPhase = 2) ~> (pc["main"] = "returned" \/ crashed)

(* C10: an event of a type without handler gets the diagnostic and no      *)
(* handler; the loop does not end or stall on it, and the events of        *)
(* registered types around it are all dispatched.                          *)
C10_UnregisteredDropped ==
    shutdownPhase = 0 =>
        LET unreg == SelectSeq(posted, Unregistered) IN
          /\ Len(diagnosed) <= Len(unreg)
          /\ \A i \in 1..Len(diagnosed) : diagnosed[i] = unreg[i]
          /\ \A i \in 1..Len(handled) : Registered(handled[i].event)
          /\ pc["main"] # "returned"
          /\ BusQuiescent =>
                Len(diagnosed) + Len(handled) = Len(posted)

(* A diagnostic was emitted and an event posted later has been handled. *)
C10_Witness ==
    /\ shutdownPhase = 0
    /\ diagnosed # << >>
    /\ \E i \in 1..Len(handled) :
          handled[i].event.data[1].id > diagnosed[1].data[1].id

(* C5: start() immediately followed by stop() on a stage with an empty     *)
(* queue terminates: stop() never sits in join() while the worker is       *)
(* suspended on the condition, the one state nothing leads out of.         *)
C5_StartStopTerminates ==
    ( /\ pc["main"] = "stop_join"
      /\ mIdx = 2
      /\ everStarted[mStage]
      /\ HandleCalls = 0 )
    => pc[mStage] # "blocked"

(* C6: when a stop() on a started stage has returned, the worker thread    *)
(* has terminated.                                                         *)
C6_StopJoinsWorker ==
    \A s \in Stages : (stopReturned[s] /\ everStarted[s]) => pc[s] = "done"

(* stop() has returned on a stage whose worker had popped a payload. *)
C6_Witness ==
    \E s \in Stages : stopReturned[s] /\ everStarted[s] /\ popped[s] # << >>

(* C7: a stop() on a stage that was never started, or whose worker has     *)
(* already returned, is never held up and ends without error.              *)
C7_StopAlwaysReturns ==
    ( /\ pc["main"] \in {"stop_store", "stop_notify", "stop_join"}
      /\ (~everStarted[mStage] \/ pc[mStage] = "done") )
    => /\ ENABLED (StopStore \/ StopNotify \/ DrvStopJoin)
       /\ ~crashed

(* stop() is joining the source whose capture did not open. *)
C7_Witness ==
    /\ pc["main"] = "stop_join"
    /\ mStage = "video"
    /\ ~resources["video"]
    /\ joinable["video"]
    /\ pc["video"] = "done"

(* The last handleEvent call that returned. *)
LastHandled(h) == h[Len(h)]

(* C8 as claimed: a handleEvent that returns has appended event.data and   *)
(* signalled the worker exactly when the type is the accessible type.      *)
C8_AcceptsOwnType ==
    [][ Len(handled') > Len(handled) =>
          LET h == LastHandled(handled') IN
            IF h.event.type = AccessibleType(h.stage)
              THEN /\ frameQueue' = [frameQueue EXCEPT ![h.stage] = Append(@, h.event.data)]
                   /\ pc[h.stage] = "blocked" => pc'[h.stage] = "lock"
              ELSE frameQueue' = frameQueue ]_vars

(* C8 amended: ... exactly when the type is the accessible type and is not *)
(* InitialState; an InitialState event is ignored by every stage.          *)
C8_AcceptsOwnTypeButInitial ==
    [][ Len(handled') > Len(handled) =>
          LET h == LastHandled(handled') IN
            IF h.event.type = AccessibleType(h.stage) /\ h.event.type # InitialState
              THEN /\ frameQueue' = [frameQueue EXCEPT ![h.stage] = Append(@, h.event.data)]
                   /\ pc[h.stage] = "blocked" => pc'[h.stage] = "lock"
              ELSE frameQueue' = frameQueue ]_vars

(* One call was taken and one, of another type, was ignored. *)
C8_Witness ==
    \E i, j \in 1..Len(handled) :
        /\ handled[i].event.type = AccessibleType(handled[i].stage)
        /\ enqueued[handled[i].stage] # << >>
        /\ handled[j].event.type \notin {AccessibleType(handled[j].stage), InitialState}

IsPrefix(p, q) == Len(p) <= Len(q) /\ \A i \in 1..Len(p) : p[i] = q[i]

(* C9: the payloads a worker has popped are a prefix of the payloads       *)
(* handleEvent appended to its queue.                                      *)
C9_StageFifo ==
    \A s \in Stages : IsPrefix(popped[s], enqueued[s])

(* Two payloads were appended and both were popped. *)
C9_Witness ==
    \E s \in Stages : Len(popped[s]) = 2

(* The dispatch thread enters a handler in this step (line 38). *)
HandlerInvoked ==
    /\ pc["main"] = "call"
    /\ it # "end"
    /\ pc'["main"] \in {"push", "relock"}

(* C4: once the render worker's shutdownEventloop() has returned, the bus  *)
(* invokes no handleEvent and no stage's queue receives a payload.         *)
C4_NoDeliveryAfterShutdown ==
    [][ shutdownPhase = 2 => (~HandlerInvoked /\ enqueued' = enqueued) ]_vars

(* The handler registerHandler was given last for the type, if any. *)
LatestRegistered(ty) ==
    IF registered[ty] = << >> THEN NoHandler
    ELSE registered[ty][Len(registered[ty])]

(* C11: the table holds for each type the handler registered last for it,  *)
(* and every event dispatched after the registrations has invoked that     *)
(* handler and no handler registered earlier for its type.                 *)
C11_LatestHandlerOnly ==
    shutdownPhase = 0 =>
        /\ \A ty \in Types : handlerContainer[ty] = LatestRegistered(ty)
        /\ \A i \in 1..Len(handled) :
              handled[i].stage = LatestRegistered(handled[i].event.type)

(* FrameCaptureReady was registered for the defogger, then for the         *)
(* inference engine, and an event of that type has been dispatched.        *)
C11_Witness ==
    /\ shutdownPhase = 0
    /\ registered[FrameCaptureReady] = << "defog", "infer" >>
    /\ \E i \in 1..Len(handled) :
          /\ handled[i].event.type = FrameCaptureReady
          /\ handled[i].stage = "infer"

(* The worker of stage s leaves its loop in this step: the loop condition  *)
(* or the test after wait() has failed.                                    *)
LeavesLoop(s) ==
    /\ pc[s] \in {"top", "chk"}
    /\ pc'[s] = AfterLoop(s)

(* C12: a worker that leaves its loop because the stage is stopping leaves *)
(* an empty queue behind: what was queued when stop() cleared the flag has *)
(* been popped before.                                                     *)
C12_DrainsBeforeExit ==
    [][ \A s \in QueueStages :
           (LeavesLoop(s) /\ ~running[s]) => frameQueue[s] = << >> ]_vars

(* start() was called on the stage and a later stop() has cleared the      *)
(* flag: only stop() stores false.                                         *)
Stopped(s) == everStarted[s] /\ ~running[s]

(* C13: Stopped is terminal: once stop() has been called on a started      *)
(* stage, no step sets its running flag again or spawns a worker for it.   *)
C13_StoppedIsTerminal ==
    [][ \A s \in Stages :
           Stopped(s) => (~running'[s] /\ (pc'[s] = "init" => pc[s] = "init")) ]_vars

(* No type has a handler. *)
TableEmpty == \A ty \in Types : handlerContainer[ty] = NoHandler

(* C14: once shutdownEventloop() has returned the bus flag is false and    *)
(* stays false, the handler table is empty, and a startEventloop() entered *)
(* from then on leaves at its first test of the flag: it pops no event and *)
(* invokes no handler.                                                     *)
C14_ShutdownIsFinal ==
    [][ shutdownPhase = 2 =>
          /\ ~busRunning /\ ~busRunning'
          /\ TableEmpty /\ TableEmpty'
          /\ pc["main"] = "loop" =>
                /\ pc'["main"] \in {"loop", "returned", "aborted"}
                /\ busPopped' = busPopped
                /\ handled' = handled ]_vars

(* shutdownEventloop() has returned before main enters startEventloop(),   *)
(* and an event is waiting in the bus queue.                               *)
C14_Witness ==
    /\ shutdownPhase = 2
    /\ pc["main"] = "loop"
    /\ eventQueue # << >>

(* C15: an append is held back by nothing but the queue's mutex: whatever  *)
(* the lengths of the queues, a stage that has an event to post can push   *)
(* it as soon as the bus mutex is free, and a handleEvent that has taken   *)
(* the event can push its payload as soon as the stage's mutex is free.    *)
C15_NoBackpressure ==
    /\ (pc["video"] = "work" /\ busMutex = "free") => ENABLED VideoPost
    /\ \A s \in {"defog", "infer"} :
          (pc[s] = "work" /\ busMutex = "free") => ENABLED WorkerTransformPost(s)
    /\ (pc["main"] = "push" /\ queueMutex[it] = "free") => ENABLED LoopPush

(* The haze-removal stage is slower than the source: all MaxFrames frames  *)
(* are in its queue and it has popped none.                                *)
C15_Witness ==
    /\ MaxFrames > 1
    /\ Len(frameQueue["defog"]) = MaxFrames
    /\ popped["defog"] = << >>

(* The next statement of thread t reads or writes handlerContainer: the    *)
(* lookup and the call through the iterator in startEventloop, the clear   *)
(* in shutdownEventloop.                                                   *)
AtTableAccess(t) ==
    \/ t = "main" /\ pc[t] \in {"find", "call"}
    \/ t # "main" /\ pc[t] = "shut_clear"

(* C16: a thread about to access the handler table holds the bus mutex,    *)
(* so no two threads are at an access of the table at the same time.       *)
C16_TableUnderMutex ==
    \A t \in Threads : AtTableAccess(t) =>
        /\ busMutex = t
        /\ \A u \in Threads \ {t} : ~AtTableAccess(u)

(* The chain of event types, each followed by the next. *)
ChainNext(ty) ==
    CASE ty = InitialState        -> FrameCaptureReady
      [] ty = FrameCaptureReady   -> FrameDefoggerReady
      [] ty = FrameDefoggerReady  -> FrameDetectionReady
      [] ty = FrameDetectionReady -> "none"

(* C17: the stages form a linear chain: the haze-removal stage takes       *)
(* FrameCaptureReady, the detection stage FrameDefoggerReady, the render   *)
(* stage FrameDetectionReady, and every event pushed into the bus queue    *)
(* is pushed by the source, the haze-removal or the detection stage and    *)
(* has the type that follows the type the stage takes: never InitialState, *)
(* never the stage's own or an earlier type, and nothing from the render   *)
(* stage.                                                                  *)
C17_LinearChain ==
    [][ /\ AccessibleType("defog") = FrameCaptureReady
        /\ AccessibleType("infer") = FrameDefoggerReady
        /\ AccessibleType("gui") = FrameDetectionReady
        /\ Len(posted') > Len(posted) =>
              \E s \in Stages \ {"gui"} :
                 /\ pc[s] = "work"
                 /\ pc'[s] = "notify"
                 /\ posted'[Len(posted')].type = ChainNext(AccessibleType(s)) ]_vars

(* A frame went down the whole chain: all three types were posted and the  *)
(* render stage has popped the payload.                                    *)
C17_Witness ==
    /\ \A ty \in PostTypes : \E i \in 1..Len(posted) : posted[i].type = ty
    /\ popped["gui"] # << >>

(* C18: in main's sequence the three handlers are in the table before the  *)
(* first start(), and as long as no shutdownEventloop() has cleared the    *)
(* table the dispatch loop emits no no-handler diagnostic.                 *)
C18_RegisteredBeforeStart ==
    /\ (\E s \in Stages : everStarted[s]) =>
          /\ registered[FrameCaptureReady] = << "defog" >>
          /\ registered[FrameDefoggerReady] = << "infer" >>
          /\ registered[FrameDetectionReady] = << "gui" >>
    /\ shutdownPhase = 0 =>
          /\ diagnosed = << >>
          /\ \A i \in 1..Len(handled) : Registered(handled[i].event)

(* No shutdown yet, and an event of each of the three types has been       *)
(* dispatched to its stage.                                                *)
C18_Witness ==
    /\ shutdownPhase = 0
    /\ \A ty \in PostTypes :
          \E i \in 1..Len(handled) : handled[i].event.type = ty

(* main is before its first stop() call. *)
BeforeStops ==
    pc["main"] \notin {"stop_store", "stop_notify", "stop_join", "exit", "aborted"}

(* C19: when the capture cannot be opened the source's worker returns      *)
(* without entering its loop and nothing is ever posted; this does not end *)
(* the process; the bus flag stays set until a shutdown and the other      *)
(* stages' flags until main stops them.                                    *)
C19_SourceFailsQuietly ==
    (~resources["video"] /\ resources["model"]) =>
        /\ pc["video"] \in {"idle", "init", "done"}
        /\ posted = << >>
        /\ ~crashed
        /\ shutdownPhase < 2 => busRunning
        /\ \A s \in Stages \ {"video"} :
              (everStarted[s] /\ BeforeStops) => running[s]

(* The capture could not be opened and the source's worker has returned;   *)
(* the dispatch loop and the workers of the other three stages are in      *)
(* their loops, waiting on their empty queues.                             *)
C19_Witness ==
    /\ ~resources["video"]
    /\ resources["model"]
    /\ resources["glfw"]
    /\ everStarted["video"]
    /\ pc["video"] = "done"
    /\ pc["main"] = "blocked"
    /\ \A s \in Stages \ {"video"} : running[s] /\ pc[s] = "blocked"

(* C20: when the network files cannot be read the detection stage's worker *)
(* returns and stays idle, and the process is not terminated.              *)
C20_ModelFailureDegrades ==
    ~resources["model"] =>
        /\ ~crashed
        /\ pc["infer"] \in {"idle", "init", "done"}

(* C21: while a path argument is invalid main creates nothing, registers  *)
(* nothing and starts nothing, and it ends by printing the usage line and *)
(* returning a non-zero status.                                           *)
C21_InvalidArgsUsage ==
    ~validateArguments(cmdArgs) =>
        /\ pc["main"] \in {"parse", "validate", "exit"}
        /\ pc["main"] = "exit" => usagePrinted /\ exitStatus = << 1 >>
        /\ \A ty \in Types : registered[ty] = << >>
        /\ \A st \in Stages : ~everStarted[st]

(* C22: the dispatch loop reads its running flag before every item it     *)
(* pops, so once the flag is cleared it pops at most the one item whose   *)
(* test of the flag it had already passed.                                *)
C22_FlagReadBeforeEveryPop ==
    ~busRunning => Len(busPopped) <= poppedAtShutdown + 1

(* C23: a transforming stage whose flag has been cleared is not           *)
(* interrupted: its next step posts the output event of the item in hand, *)
(* and only at the top of its loop does it read the flag and return.      *)
C23_StopDoesNotInterrupt ==
    [][ \A s \in {"defog", "infer"} :
          (~running[s] /\ ~crashed') =>
              /\ pc[s] = "work" =>
                    \/ pc'[s] = "work" /\ posted' = posted
                    \/ /\ pc'[s] = "notify"
                       /\ posted' = Append(posted, OutputEvent(s, frames[s]))
              /\ pc[s] = "notify" => pc'[s] \in {"notify", "top"}
              /\ (pc[s] = "top" /\ ~running'[s]) => pc'[s] \in {"top", "done"} ]_vars

(* stop() is in flight on a stage that has just posted the output of the  *)
(* item it was transforming.                                              *)
C23_Witness ==
    \E s \in {"defog", "infer"} :
        /\ mStage = s
        /\ pc["main"] \in {"stop_notify", "stop_join"}
        /\ ~running[s]
        /\ pc[s] = "notify"
        /\ posted # << >>
        /\ posted[Len(posted)] = OutputEvent(s, frames[s])

(* The events a stage has posted and the type it posts them under. *)
OutputType(s) ==
    IF s = "video" THEN FrameCaptureReady
    ELSE IF s = "defog" THEN FrameDefoggerReady
    ELSE FrameDetectionReady

OutputsOf(s) == SelectSeq(posted, LAMBDA e : e.type = OutputType(s))

(* C24: the haze-removal and detection stages have posted one event of    *)
(* their output type for every payload popped, the payload in hand        *)
(* excepted; the i-th carries the i-th popped payload's first frame as it *)
(* was popped and its second frame with the stage's transform applied.    *)
(* Nothing else is posted but the source's frames.                        *)
C24_OneOutputPerPayload ==
    /\ \A s \in {"defog", "infer"} :
         LET out == OutputsOf(s) IN
           /\ Len(out) <= Len(popped[s])
           /\ Len(popped[s]) <= Len(out) + 1
           /\ ~crashed => (Len(out) < Len(popped[s]) <=> pc[s] = "work")
           /\ \A i \in 1..Len(out) :
                /\ out[i].data[1] = popped[s][i][1]
                /\ out[i].data[2].id = popped[s][i][2].id
                /\ out[i].data[2].ops =
                     Append(popped[s][i][2].ops,
                            IF s = "defog" THEN "defog" ELSE "detect")
    /\ Len(posted) = Len(OutputsOf("video")) + Len(OutputsOf("defog"))
                       + Len(OutputsOf("infer"))

(* Both stages have popped a payload and posted its output. *)
C24_Witness ==
    /\ ~crashed
    /\ \A s \in {"defog", "infer"} :
         /\ popped[s] # << >>
         /\ pc[s] # "work"
         /\ Len(OutputsOf(s)) = Len(popped[s])

(* C25: a step of the dispatch thread inside a handler neither waits nor  *)
(* transforms nor posts; it leaves the bus queue, the handler table and   *)
(* every flag alone, and the only queue it changes is the one of the      *)
(* stage the handler belongs to, by appending the event's payload and     *)
(* waking that stage's worker if it waits.                                *)
C25_HandlerOnlyEnqueues ==
    [][ ( /\ pc["main"] \in {"call", "push"}
          /\ it # "end"
          /\ pc'["main"] # pc["main"]
          /\ ~crashed' ) =>
           /\ pc'["main"] \in {"push", "relock"}
           /\ UNCHANGED << eventQueue, handlerContainer, busRunning, posted,
                           running, frames, popped >>
           /\ \A s \in Stages :
                /\ frameQueue'[s] # frameQueue[s] =>
                     /\ s = it'
                     /\ pc["main"] = "push"
                     /\ frameQueue'[s] = Append(frameQueue[s], event.data)
                /\ pc'[s] # pc[s] =>
                     /\ s = it'
                     /\ frameQueue'[s] # frameQueue[s]
                     /\ pc[s] = "blocked"
                     /\ pc'[s] = "lock" ]_vars

(* A handler has just appended the event's payload to its stage's queue   *)
(* and woken the worker.                                                  *)
C25_Witness ==
    /\ pc["main"] = "relock"
    /\ it \in Stages
    /\ frameQueue[it] # << >>
    /\ frameQueue[it][Len(frameQueue[it])] = event.data
    /\ pc[it] = "lock"

C27_SourceQueueEmpty ==
    /\ frameQueue["video"] = << >>
    /\ enqueued["video"] = << >>
    /\ popped["video"] = << >>
    /\ \A i \in 1..Len(posted) : posted[i].type # InitialState
    /\ \A i \in 1..Len(handled) :
         handled[i].event.type = InitialState =>
             \A j \in 1..Len(enqueued[handled[i].stage]) :
                 enqueued[handled[i].stage][j] # handled[i].event.data
    /\ \A i \in 1..Len(PipeRegistrations) :
         /\ PipeRegistrations[i][1] # InitialState
         /\ PipeRegistrations[i][2] # "video"
    /\ \A ty \in Types : handlerContainer[ty] # "video"

(* The running source has posted a frame and has been handed an           *)
(* InitialState event and a frame event.                                  *)
C27_Witness ==
    /\ running["video"]
    /\ FramesPosted >= 1
    /\ \E i \in 1..Len(handled) :
         handled[i].stage = "video" /\ handled[i].event.type = InitialState
    /\ \E i \in 1..Len(handled) :
         handled[i].stage = "video" /\ handled[i].event.type # InitialState

(* C28: a candidate is kept exactly when its confidence is at least the   *)
(* threshold; one whose confidence equals the threshold is kept.          *)
C28_KeptAtThreshold ==
    (fnArgs.fn = "detect" /\ fnResult # << >>) =>
        LET confidence ==
              IF fnArgs.scores[1] >= fnArgs.scores[2]
                THEN fnArgs.scores[1] ELSE fnArgs.scores[2]
        IN  (fnResult[1] # << >>) <=> (confidence >= fnArgs.threshold)

(* C29: defog of a uniform frame with window size 1 is the frame itself,  *)
(* whatever the colour.                                                   *)
C29_UniformFrameUnchanged ==
    (fnArgs.fn = "defog" /\ fnArgs.pRectSize = 1 /\ fnResult # << >>) =>
        fnResult[1] = fnArgs.colour

C31_NoTwoMutexes ==
    /\ busMutex \in {"free", "main"}
    /\ \A s \in Stages : queueMutex[s] \in {"free", s}
    /\ pc["main"] \in {"find", "call", "push"} => busMutex = "free"
    /\ \A s \in Stages : pc[s] \in {"work", "notify"} => queueMutex[s] = "free"

(* The dispatch thread is about to append to a stage's queue while that   *)
(* stage's worker holds the queue mutex.                                  *)
C31_Witness ==
    /\ pc["main"] = "push"
    /\ busMutex = "free"
    /\ queueMutex[it] = it

(* The original frames of a sequence of payloads. *)
Originals(q) == [i \in 1..Len(q) |-> q[i][1]]

(* C32: the frames the render stage has popped are, in order and without  *)
(* gap or repetition, the first of the frames the source has posted.      *)
C32_EndToEndOrder ==
    IsPrefix(Originals(popped["gui"]),
             [i \in 1..Len(OutputsOf("video")) |-> OutputsOf("video")[i].data[1]])

(* The render stage has popped two different frames. *)
C32_Witness ==
    /\ Len(popped["gui"]) >= 2
    /\ popped["gui"][1][1] # popped["gui"][2][1]

(* C33: with fair scheduling, and while neither a bus shutdown nor a      *)
(* stop() is requested, the k-th frame the source posts reaches the       *)
(* render stage's queue as the k-th payload, carrying that frame.         *)
C33_FrameReachesRender ==
    \A k \in 1..FlowFrames :
        (FramesPosted >= k) ~>
            /\ Len(enqueued["gui"]) >= k
            /\ enqueued["gui"][k][1] = OutputsOf("video")[k].data[1]

(* Every frame the source posted is in the render stage's queue history,  *)
(* delivered by the handler of FrameDetectionReady, and no shutdown was   *)
(* requested.                                                             *)
C33_Witness ==
    /\ FramesPosted = FlowFrames
    /\ Len(enqueued["gui"]) = FlowFrames
    /\ shutdownPhase = 0
    /\ \A i \in 1..Len(handled) :
         handled[i].stage = "gui" => handled[i].event.type = FrameDetectionReady

(* C34: a worker suspended in wait() has an empty queue: an append cannot *)
(* fall between its test of the predicate and its suspension.             *)
C34_NoLostWakeupOnEnqueue ==
    \A s \in Stages : pc[s] = "blocked" => frameQueue[s] = << >>

(* A handler is about to append while the stage's worker, having found    *)
(* its queue empty, holds the queue mutex and has not suspended yet.      *)
C34_Witness ==
    /\ pc["main"] = "push"
    /\ pc[it] = "sleep"
    /\ queueMutex[it] = it
    /\ running[it]


(* C35: once startEventloop() has returned, the stop sequence of main     *)
(* terminates: main never waits in join() for a worker that is suspended  *)
(* on its condition after the notify_all of that stop(), the state that   *)
(* only a spurious wake-up leads out of.                                  *)
C35_StopSequenceTerminates ==
    pc["main"] = "stop_join" => pc[mStage] # "blocked"


(* main has not yet entered startEventloop(). *)
BeforeLoop == pc["main"] \in {"setup", "reg", "start"}

(* C36: an event posted before startEventloop() is entered is not lost:   *)
(* the bus flag is true from construction, postEvent appends whether or   *)
(* not the loop runs, so the queue holds every posted event in post       *)
(* order, and once the loop has started the k-th of them is the k-th      *)
(* event it pops.                                                         *)
C36_PostsBeforeLoopKept ==
    /\ [](BeforeLoop => (busRunning /\ eventQueue = posted /\ busPopped = << >>))
    /\ \A k \in 1..MaxPosts :
          (BeforeLoop /\ Len(posted) >= k) ~>
              (Len(busPopped) >= k /\ busPopped[k] = posted[k])

(* Every event the clients post is in the bus queue and main has not yet  *)
(* called startEventloop().                                               *)
C36_Witness ==
    /\ BeforeLoop
    /\ Len(posted) = MaxPosts
    /\ eventQueue = posted


(* The event of the k-th postEvent call has been handed to a handler. *)
Delivered(k) == \E i \in 1..Len(handled) : handled[i].event = posted[k]

(* startEventloop() has returned in main. *)
LoopExited == pc["main"] \in {"returned", "stop_store", "stop_notify", "stop_join", "exit"}

(* C37: an event posted after shutdownEventloop() has returned is         *)
(* appended to the bus queue and is never handed to a handler; the post   *)
(* does not set the bus flag again; and once the dispatch loop has        *)
(* returned it is not entered again, pops nothing and calls no handler,   *)
(* so what the queue holds then is kept.                                  *)
C37_NoDeliveryAfterShutdown ==
    /\ [](shutdownPhase = 2 =>
             \A k \in (postedAtShutdown + 1)..Len(posted) : ~Delivered(k))
    /\ [][ shutdownPhase = 2 =>
             /\ ~busRunning'
             /\ Len(posted') > Len(posted) =>
                   eventQueue' = Append(eventQueue, posted'[Len(posted')]) ]_vars
    /\ [][ LoopExited =>
             /\ LoopExited'
             /\ handled' = handled
             /\ busPopped' = busPopped
             /\ \/ eventQueue' = eventQueue
                \/ eventQueue' = Append(eventQueue, posted'[Len(posted')]) ]_vars

(* The loop has returned and the last event of the bus queue was posted   *)
(* after the shutdown.                                                    *)
C37_Witness ==
    /\ LoopExited
    /\ shutdownPhase = 2
    /\ Len(posted) > postedAtShutdown
    /\ eventQueue # << >>
    /\ eventQueue[Len(eventQueue)] = posted[Len(posted)]


(* C38: every way out of the render worker's frame loop, the window       *)
(* closed or the stage's flag cleared by stop(), leads to one             *)
(* shutdownEventloop() call, the clear and then the store, after which    *)
(* the worker returns; nothing else clears the bus flag; and a render     *)
(* worker whose surface fails to initialise returns without the call, so  *)
(* that the bus flag stays true.                                          *)
C38_ShutdownOncePerExit ==
    /\ [][ ~crashed' =>
             /\ (pc["gui"] \in {"top", "chk"} /\ pc'["gui"] \notin {"top", "chk", "lock", "work"})
                   => pc'["gui"] = "shut_clear"
             /\ (pc["gui"] = "shut_clear" /\ pc'["gui"] # "shut_clear")
                   => (pc'["gui"] = "shut_store" /\ shutdownPhase' = 1 /\ TableEmpty')
             /\ (pc["gui"] = "shut_store" /\ pc'["gui"] # "shut_store")
                   => (pc'["gui"] = "done" /\ shutdownPhase' = 2 /\ ~busRunning')
             /\ (shutdownPhase' # shutdownPhase \/ busRunning' # busRunning)
                   => pc["gui"] \in {"shut_clear", "shut_store"}
             /\ (pc["gui"] = "init" /\ pc'["gui"] = "done")
                   => /\ ~resources["glfw"]
                      /\ UNCHANGED << busRunning, shutdownPhase, handlerContainer >> ]_vars
    /\ [](~resources["glfw"] => (busRunning /\ shutdownPhase = 0))

(* The render worker has left its loop because stop() cleared its flag,   *)
(* the window still open, has called shutdownEventloop() and returned.    *)
C38_Witness ==
    /\ pc["gui"] = "done"
    /\ ~running["gui"]
    /\ ~windowClosed
    /\ shutdownPhase = 2
    /\ ~busRunning


(* main is inside a stop() on a stage whose previous stop() has returned  *)
(* with no start() in between.                                            *)
InSecondStop ==
    /\ pc["main"] \in {"stop_store", "stop_notify", "stop_join"}
    /\ stopReturned[mStage]

(* C39: a second stop() on a stage changes nothing and waits for nothing: *)
(* its store, its notify_all and its joinable() test leave the flag, the  *)
(* queue, the thread handle and the worker as they are, and the call can  *)
(* return as soon as it reaches the test.                                 *)
C39_StopIdempotent ==
    /\ [][ (InSecondStop /\ pc'["main"] # pc["main"] /\ ~crashed') =>
             /\ UNCHANGED << running, frameQueue, queueMutex, joinable, frames >>
             /\ \A s \in Stages : pc'[s] = pc[s]
             /\ stopReturned'[mStage] ]_vars
    /\ []((InSecondStop /\ pc["main"] = "stop_join") =>
             (~joinable[mStage] /\ ENABLED DrvStopJoin))

(* A second stop() on a stage that was started and stopped has reached    *)
(* its joinable() test; the worker ended with the first one.              *)
C39_Witness ==
    /\ InSecondStop
    /\ pc["main"] = "stop_join"
    /\ everStarted[mStage]
    /\ pc[mStage] = "done"


(* C40: atmLight averages over exactly max(floor(imgSize / 1000), 1)      *)
(* pixels: the count is 1 below 1000 pixels and the whole number of       *)
(* thousands from there on, at least 1 and at most imgSize; the entries   *)
(* taken are that many; no pixel left out has a larger dark-channel value *)
(* than a pixel taken; and each channel of the result is the sum of the   *)
(* taken source pixels divided by the count.                              *)
C40_AtmLightCount ==
    (fnArgs.fn = "atmLight" /\ fnResult # << >>) =>
        LET r == fnResult[1]
            runs == fnArgs.runs
            n == imgSizeOf(runs)
        IN  /\ r.tNumpx >= 1 /\ r.tNumpx <= n
            /\ n < 1000 => r.tNumpx = 1
            /\ n >= 1000 => (r.tNumpx * 1000 <= n /\ n < (r.tNumpx + 1) * 1000)
            /\ Pixels([k \in 1..Len(runs) |-> [n |-> r.taken[k]]],
                      [k \in 1..Len(runs) |-> k], 1, Len(runs)) = r.tNumpx
            /\ \A a, b \in 1..Len(runs) :
                  (r.taken[a] > 0 /\ r.taken[b] < runs[r.tIndices[b]].n) =>
                      runs[r.tIndices[a]].dark >= runs[r.tIndices[b]].dark
            /\ \A c \in 1..3 :
                  /\ ~r.pOutA[c].nan
                  /\ r.pOutA[c].v * r.tNumpx <= r.sum[c]
                  /\ r.sum[c] < (r.pOutA[c].v + 1) * r.tNumpx

(* A frame of 2000 pixels: the two taken come from two runs of different  *)
(* dark-channel value and colour, and the darkest run gives none.         *)
C40_Witness ==
    /\ fnArgs.fn = "atmLight"
    /\ fnResult # << >>
    /\ imgSizeOf(fnArgs.runs) = 2000
    /\ fnResult[1].tNumpx = 2
    /\ \E a, b, d \in 1..Len(fnArgs.runs) :
          LET r == fnResult[1] IN
            /\ r.taken[a] = 1 /\ r.taken[b] = 1 /\ r.taken[d] = 0
            /\ fnArgs.runs[r.tIndices[a]].dark # fnArgs.runs[r.tIndices[b]].dark
            /\ fnArgs.runs[r.tIndices[a]].colour # fnArgs.runs[r.tIndices[b]].colour

=============================================================================
